---- MODULE Spec2Model ----
(***************************************************************************)
(* A model of the Arduino EventManager: two fixed-capacity ring buffers    *)
(* (high and low priority), a listener table with a default listener, and  *)
(* the processEvent / processAllEvents dispatch loops.                     *)
(*                                                                         *)
(* Two contexts execute the code: the main context (loop()) and one        *)
(* interrupt handler that calls queueEvent.  Every source statement that   *)
(* touches shared state is one step; the interrupt handler may start only  *)
(* while the global interrupt flag is set and runs to completion before    *)
(* the main context continues.                                             *)
(***************************************************************************)
EXTENDS Integers, Sequences, FiniteSets, TLC

\* ------------------------------------------------------------ sizes
\* EVENTMANAGER_EVENT_QUEUE_SIZE and EVENTMANAGER_LISTENER_LIST_SIZE are
\* build-time macros (default 8); the model instantiates them smaller.
kEventQueueSize == 2
kMaxListeners == 2
\* Total number of events the model lets queueEvent accept.
MaxSubmits == 3

kEventNone == 200
kHighPriority == 0
kLowPriority == 1
\* The value of a local int that has been declared but never assigned.
Uninit == -1

Priorities == {kHighPriority, kLowPriority}
Slots == 0 .. (kEventQueueSize - 1)
kMain == "main"
kISR == "isr"
Contexts == {kMain, kISR}

\* Event codes and callbacks used as inputs.  0 is the null function pointer.
Codes == {1, 2}
Callbacks == {1, 2}

VARIABLES
    \* EventManager::EventQueue (one per priority)
    mInterruptSafeMode, mEventQueue, mEventQueueHead, mEventQueueTail, mNumEvents,
    \* EventManager::ListenerList
    mListeners, mNumListeners, mDefaultCallback, mDefaultCallbackEnabled,
    \* the global interrupt enable flag (bit I of SREG)
    SREG_I,
    \* control: the statement each context is at, and the queueEvent frame of each
    pc, qe,
    \* locals of processEvent / processAllEvents, popEvent and sendEvent (main context)
    op, pq, eventCode, param, handledCount, popRet, i, handlerCount,
    \* history: events accepted by / popped from each queue, callbacks invoked by the
    \* running sendEvent, the pops of the running call, the state at the call's entry
    accepted, popped, invoked, callLog, entry,
    \* the listener-table call that is returning: its name, arguments and result
    call

queueVars == <<mEventQueue, mEventQueueHead, mEventQueueTail, mNumEvents>>
listenerVars == <<mListeners, mNumListeners, mDefaultCallback, mDefaultCallbackEnabled>>
mainLocals == <<op, pq, eventCode, param, handledCount, popRet, i, handlerCount>>
historyVars == <<accepted, popped, invoked, callLog, entry, call>>
vars == <<mInterruptSafeMode, queueVars, listenerVars, SREG_I, pc, qe, mainLocals, historyVars>>

\* ------------------------------------------------------------ helpers
NoFrame == [pri |-> kLowPriority, eventCode |-> 0, eventParam |-> 0,
            sregSave |-> FALSE, retVal |-> FALSE]
NoEntry == [taken |-> FALSE]
NoCall == [name |-> "none"]

\* The state a call finds: what "unchanged" and "queued at entry" refer to.
Snapshot == [taken |-> TRUE, queue |-> mEventQueue, head |-> mEventQueueHead,
             tail |-> mEventQueueTail, num |-> mNumEvents,
             listeners |-> mListeners, numListeners |-> mNumListeners,
             defaultCallback |-> mDefaultCallback,
             defaultEnabled |-> mDefaultCallbackEnabled, sreg |-> SREG_I,
             submits |-> Len(accepted[kHighPriority]) + Len(accepted[kLowPriority])]

\* EventQueue::isEmpty, isFull
isEmpty(q) == mNumEvents[q] = 0
\* (a variant that is off by one: full only above the capacity)
isFull_offByOne(q) == mNumEvents[q] > kEventQueueSize
isFull(q) == mNumEvents[q] = kEventQueueSize

\* The context that executes: the interrupt handler once started, else main.
Runs(c) == IF c = kISR THEN pc[kISR] # "idle" ELSE pc[kISR] = "idle"

SubmitsLeft == Len(accepted[kHighPriority]) + Len(accepted[kLowPriority]) < MaxSubmits
\* Every accepted event carries a fresh parameter, so that two queued events
\* are never confused.
NextParam == Len(accepted[kHighPriority]) + Len(accepted[kLowPriority])

\* ------------------------------------------------------------ construction
InitQueues ==
    /\ mEventQueue = [q \in Priorities |-> [s \in Slots |-> [code |-> kEventNone, param |-> 0]]]
    /\ mEventQueueHead = [q \in Priorities |-> 0]
    /\ mEventQueueTail = [q \in Priorities |-> 0]
    /\ mNumEvents = [q \in Priorities |-> 0]

\* ListenerList(): mNumListeners and mDefaultCallback are set; the array and
\* mDefaultCallbackEnabled are left uninitialised.  No code reads an array
\* entry at or above mNumListeners, so the array starts with one fixed filler.
InitListeners ==
    /\ mListeners = [k \in 0 .. (kMaxListeners - 1) |-> [callback |-> 0, eventCode |-> 0, enabled |-> FALSE]]
    /\ mNumListeners = 0
    /\ mDefaultCallback = 0
    /\ mDefaultCallbackEnabled \in BOOLEAN

InitControl ==
    /\ SREG_I = TRUE
    /\ pc = [c \in Contexts |-> "idle"]
    /\ qe = [c \in Contexts |-> NoFrame]
    /\ op = "none"
    /\ pq = kHighPriority
    /\ eventCode = Uninit
    /\ param = Uninit
    /\ handledCount = 0
    /\ popRet = FALSE
    /\ i = 0
    /\ handlerCount = 0
    /\ accepted = [q \in Priorities |-> <<>>]
    /\ popped = [q \in Priorities |-> <<>>]
    /\ invoked = <<>>
    /\ callLog = <<>>
    /\ entry = NoEntry
    /\ call = NoCall

\* EventManager( SafetyMode safety = kInterruptSafe )
Init ==
    /\ mInterruptSafeMode = TRUE
    /\ InitQueues
    /\ InitListeners
    /\ InitControl

\* ------------------------------------------------------------ queueEvent
\* EventManager::queueEvent called from normal code: it selects the queue.
queueEvent(code, prm, pri) ==
    /\ Runs(kMain)
    /\ pc[kMain] = "idle"
    /\ SubmitsLeft \/ isFull(pri)
    /\ pc' = [pc EXCEPT ![kMain] = "qe_enter"]
    /\ qe' = [qe EXCEPT ![kMain] = [NoFrame EXCEPT !.pri = pri, !.eventCode = code, !.eventParam = prm]]
    /\ op' = "queueEvent"
    /\ entry' = Snapshot
    /\ UNCHANGED <<mInterruptSafeMode, queueVars, listenerVars, SREG_I>>
    /\ UNCHANGED <<pq, eventCode, param, handledCount, popRet, i, handlerCount>>
    /\ UNCHANGED <<accepted, popped, invoked, callLog, call>>

\* An interrupt is taken (only while the I flag is set; the hardware clears
\* the flag) and its handler calls EventManager::queueEvent.
interruptHandler(code, prm, pri) ==
    /\ SREG_I
    /\ pc[kISR] = "idle"
    /\ SubmitsLeft \/ isFull(pri)
    /\ SREG_I' = FALSE
    /\ pc' = [pc EXCEPT ![kISR] = "qe_enter"]
    /\ qe' = [qe EXCEPT ![kISR] = [NoFrame EXCEPT !.pri = pri, !.eventCode = code, !.eventParam = prm]]
    /\ UNCHANGED <<mInterruptSafeMode, queueVars, listenerVars, mainLocals, historyVars>>

\* The handler returns: reti sets the I flag and normal code resumes.
reti ==
    /\ pc[kISR] = "qe_return"
    /\ SREG_I' = TRUE
    /\ pc' = [pc EXCEPT ![kISR] = "idle"]
    /\ qe' = [qe EXCEPT ![kISR] = NoFrame]
    /\ UNCHANGED <<mInterruptSafeMode, queueVars, listenerVars, mainLocals, historyVars>>

\* (a variant without the atomic section)
qe_enter_noCli(c) ==
    /\ Runs(c)
    /\ pc[c] = "qe_enter"
    /\ pc' = [pc EXCEPT ![c] = "qe_isFull"]
    /\ UNCHANGED <<mInterruptSafeMode, queueVars, listenerVars, SREG_I, qe, mainLocals, historyVars>>

\* sregSave = SREG; cli();
qe_enter(c) ==
    /\ Runs(c)
    /\ pc[c] = "qe_enter"
    /\ IF mInterruptSafeMode
          THEN /\ qe' = [qe EXCEPT ![c].sregSave = SREG_I]
               /\ SREG_I' = FALSE
          ELSE UNCHANGED <<qe, SREG_I>>
    /\ pc' = [pc EXCEPT ![c] = "qe_isFull"]
    /\ UNCHANGED <<mInterruptSafeMode, queueVars, listenerVars, mainLocals, historyVars>>

\* boolean retVal = false; if ( !isFull() )
qe_isFull(c) ==
    /\ Runs(c)
    /\ pc[c] = "qe_isFull"
    /\ qe' = [qe EXCEPT ![c].retVal = FALSE]
    /\ pc' = [pc EXCEPT ![c] = IF isFull(qe[c].pri) THEN "qe_restore" ELSE "qe_storeCode"]
    /\ UNCHANGED <<mInterruptSafeMode, queueVars, listenerVars, SREG_I, mainLocals, historyVars>>

\* mEventQueue[ mEventQueueTail ].code = eventCode;
qe_storeCode(c) ==
    /\ Runs(c)
    /\ pc[c] = "qe_storeCode"
    /\ mEventQueue' = [mEventQueue EXCEPT ![qe[c].pri][mEventQueueTail[qe[c].pri]].code = qe[c].eventCode]
    /\ pc' = [pc EXCEPT ![c] = "qe_storeParam"]
    /\ UNCHANGED <<mInterruptSafeMode, mEventQueueHead, mEventQueueTail, mNumEvents>>
    /\ UNCHANGED <<listenerVars, SREG_I, qe, mainLocals, historyVars>>

\* mEventQueue[ mEventQueueTail ].param = eventParam;
qe_storeParam(c) ==
    /\ Runs(c)
    /\ pc[c] = "qe_storeParam"
    /\ mEventQueue' = [mEventQueue EXCEPT ![qe[c].pri][mEventQueueTail[qe[c].pri]].param = qe[c].eventParam]
    /\ pc' = [pc EXCEPT ![c] = "qe_tail"]
    /\ UNCHANGED <<mInterruptSafeMode, mEventQueueHead, mEventQueueTail, mNumEvents>>
    /\ UNCHANGED <<listenerVars, SREG_I, qe, mainLocals, historyVars>>

\* (a variant that advances the tail without the modulo)
qe_tail_noWrap(c) ==
    /\ Runs(c)
    /\ pc[c] = "qe_tail"
    /\ mEventQueueTail' = [mEventQueueTail EXCEPT ![qe[c].pri] = @ + 1]
    /\ pc' = [pc EXCEPT ![c] = "qe_count"]
    /\ UNCHANGED <<mInterruptSafeMode, mEventQueue, mEventQueueHead, mNumEvents>>
    /\ UNCHANGED <<listenerVars, SREG_I, qe, mainLocals, historyVars>>

\* mEventQueueTail = ( mEventQueueTail + 1 ) % kEventQueueSize;
qe_tail(c) ==
    /\ Runs(c)
    /\ pc[c] = "qe_tail"
    /\ mEventQueueTail' = [mEventQueueTail EXCEPT ![qe[c].pri] = (@ + 1) % kEventQueueSize]
    /\ pc' = [pc EXCEPT ![c] = "qe_count"]
    /\ UNCHANGED <<mInterruptSafeMode, mEventQueue, mEventQueueHead, mNumEvents>>
    /\ UNCHANGED <<listenerVars, SREG_I, qe, mainLocals, historyVars>>

\* mNumEvents++; retVal = true;   (the event is accepted here)
qe_count(c) ==
    /\ Runs(c)
    /\ pc[c] = "qe_count"
    /\ mNumEvents' = [mNumEvents EXCEPT ![qe[c].pri] = @ + 1]
    /\ qe' = [qe EXCEPT ![c].retVal = TRUE]
    /\ accepted' = [accepted EXCEPT ![qe[c].pri] = Append(@, <<qe[c].eventCode, qe[c].eventParam>>)]
    /\ pc' = [pc EXCEPT ![c] = "qe_restore"]
    /\ UNCHANGED <<mInterruptSafeMode, mEventQueue, mEventQueueHead, mEventQueueTail>>
    /\ UNCHANGED <<listenerVars, SREG_I, mainLocals, popped, invoked, callLog, entry, call>>

\* if ( mInterruptSafeMode ) restoreInterruptState( &sregSave );
qe_restore(c) ==
    /\ Runs(c)
    /\ pc[c] = "qe_restore"
    /\ SREG_I' = IF mInterruptSafeMode THEN qe[c].sregSave ELSE SREG_I
    /\ pc' = [pc EXCEPT ![c] = "qe_return"]
    /\ UNCHANGED <<mInterruptSafeMode, queueVars, listenerVars, qe, mainLocals, historyVars>>

\* return retVal;   (main context: back in loop())
qe_return ==
    /\ Runs(kMain)
    /\ pc[kMain] = "qe_return"
    /\ pc' = [pc EXCEPT ![kMain] = "idle"]
    /\ qe' = [qe EXCEPT ![kMain] = NoFrame]
    /\ op' = "none"
    /\ entry' = NoEntry
    /\ UNCHANGED <<mInterruptSafeMode, queueVars, listenerVars, SREG_I>>
    /\ UNCHANGED <<pq, eventCode, param, handledCount, popRet, i, handlerCount>>
    /\ UNCHANGED <<accepted, popped, invoked, callLog, call>>

QueueEventStep(c) ==
    \/ qe_enter(c)
    \/ qe_isFull(c)
    \/ qe_storeCode(c)
    \/ qe_storeParam(c)
    \/ qe_tail(c)
    \/ qe_count(c)
    \/ qe_restore(c)

\* ------------------------------------------------------------ popEvent
\* (a variant that stores the head slot into the caller's variables before
\* the emptiness test)
pop_isEmpty_readFirst ==
    /\ Runs(kMain)
    /\ pc[kMain] = "pop_isEmpty"
    /\ eventCode' = mEventQueue[pq][mEventQueueHead[pq]].code
    /\ param' = mEventQueue[pq][mEventQueueHead[pq]].param
    /\ IF isEmpty(pq)
          THEN /\ popRet' = FALSE
               /\ pc' = [pc EXCEPT ![kMain] = "pop_return"]
          ELSE /\ popRet' = popRet
               /\ pc' = [pc EXCEPT ![kMain] = "pop_cli"]
    /\ UNCHANGED <<mInterruptSafeMode, queueVars, listenerVars, SREG_I, qe>>
    /\ UNCHANGED <<op, pq, handledCount, i, handlerCount, historyVars>>

\* (a variant without the emptiness check)
pop_isEmpty_noCheck ==
    /\ Runs(kMain)
    /\ pc[kMain] = "pop_isEmpty"
    /\ popRet' = popRet
    /\ pc' = [pc EXCEPT ![kMain] = "pop_cli"]
    /\ UNCHANGED <<mInterruptSafeMode, queueVars, listenerVars, SREG_I, qe>>
    /\ UNCHANGED <<op, pq, eventCode, param, handledCount, i, handlerCount, historyVars>>

\* EventQueue::popEvent( &eventCode, &param ) on queue pq, main context only.
\* if ( isEmpty() ) return false;
pop_isEmpty ==
    /\ Runs(kMain)
    /\ pc[kMain] = "pop_isEmpty"
    /\ IF isEmpty(pq)
          THEN /\ popRet' = FALSE
               /\ pc' = [pc EXCEPT ![kMain] = "pop_return"]
          ELSE /\ popRet' = popRet
               /\ pc' = [pc EXCEPT ![kMain] = "pop_cli"]
    /\ UNCHANGED <<mInterruptSafeMode, queueVars, listenerVars, SREG_I, qe>>
    /\ UNCHANGED <<op, pq, eventCode, param, handledCount, i, handlerCount, historyVars>>

\* if ( mInterruptSafeMode ) cli();
pop_cli ==
    /\ Runs(kMain)
    /\ pc[kMain] = "pop_cli"
    /\ SREG_I' = IF mInterruptSafeMode THEN FALSE ELSE SREG_I
    /\ pc' = [pc EXCEPT ![kMain] = "pop_readCode"]
    /\ UNCHANGED <<mInterruptSafeMode, queueVars, listenerVars, qe, mainLocals, historyVars>>

\* *eventCode = mEventQueue[ mEventQueueHead ].code;
pop_readCode ==
    /\ Runs(kMain)
    /\ pc[kMain] = "pop_readCode"
    /\ eventCode' = mEventQueue[pq][mEventQueueHead[pq]].code
    /\ pc' = [pc EXCEPT ![kMain] = "pop_readParam"]
    /\ UNCHANGED <<mInterruptSafeMode, queueVars, listenerVars, SREG_I, qe>>
    /\ UNCHANGED <<op, pq, param, handledCount, popRet, i, handlerCount, historyVars>>

\* *eventParam = mEventQueue[ mEventQueueHead ].param;
pop_readParam ==
    /\ Runs(kMain)
    /\ pc[kMain] = "pop_readParam"
    /\ param' = mEventQueue[pq][mEventQueueHead[pq]].param
    /\ pc' = [pc EXCEPT ![kMain] = "pop_clear"]
    /\ UNCHANGED <<mInterruptSafeMode, queueVars, listenerVars, SREG_I, qe>>
    /\ UNCHANGED <<op, pq, eventCode, handledCount, popRet, i, handlerCount, historyVars>>

\* (a variant that leaves the code in the slot it popped)
pop_clear_skip ==
    /\ Runs(kMain)
    /\ pc[kMain] = "pop_clear"
    /\ pc' = [pc EXCEPT ![kMain] = "pop_head"]
    /\ UNCHANGED <<mInterruptSafeMode, queueVars, listenerVars, SREG_I, qe, mainLocals, historyVars>>

\* mEventQueue[ mEventQueueHead ].code = EventManager::kEventNone;
pop_clear ==
    /\ Runs(kMain)
    /\ pc[kMain] = "pop_clear"
    /\ mEventQueue' = [mEventQueue EXCEPT ![pq][mEventQueueHead[pq]].code = kEventNone]
    /\ pc' = [pc EXCEPT ![kMain] = "pop_head"]
    /\ UNCHANGED <<mInterruptSafeMode, mEventQueueHead, mEventQueueTail, mNumEvents>>
    /\ UNCHANGED <<listenerVars, SREG_I, qe, mainLocals, historyVars>>

\* (a variant that forgets to advance the head)
pop_head_stuck ==
    /\ Runs(kMain)
    /\ pc[kMain] = "pop_head"
    /\ pc' = [pc EXCEPT ![kMain] = "pop_count"]
    /\ UNCHANGED <<mInterruptSafeMode, queueVars, listenerVars, SREG_I, qe, mainLocals, historyVars>>

\* mEventQueueHead = ( mEventQueueHead + 1 ) % kEventQueueSize;
pop_head ==
    /\ Runs(kMain)
    /\ pc[kMain] = "pop_head"
    /\ mEventQueueHead' = [mEventQueueHead EXCEPT ![pq] = (@ + 1) % kEventQueueSize]
    /\ pc' = [pc EXCEPT ![kMain] = "pop_count"]
    /\ UNCHANGED <<mInterruptSafeMode, mEventQueue, mEventQueueTail, mNumEvents>>
    /\ UNCHANGED <<listenerVars, SREG_I, qe, mainLocals, historyVars>>

\* (a variant that forgets to count the event down)
pop_count_noDecrement ==
    /\ Runs(kMain)
    /\ pc[kMain] = "pop_count"
    /\ pc' = [pc EXCEPT ![kMain] = "pop_sei"]
    /\ UNCHANGED <<mInterruptSafeMode, queueVars, listenerVars, SREG_I, qe, mainLocals, historyVars>>

\* mNumEvents--;
pop_count ==
    /\ Runs(kMain)
    /\ pc[kMain] = "pop_count"
    /\ mNumEvents' = [mNumEvents EXCEPT ![pq] = @ - 1]
    /\ pc' = [pc EXCEPT ![kMain] = "pop_sei"]
    /\ UNCHANGED <<mInterruptSafeMode, mEventQueue, mEventQueueHead, mEventQueueTail>>
    /\ UNCHANGED <<listenerVars, SREG_I, qe, mainLocals, historyVars>>

\* (a variant that returns without sei())
pop_sei_noSei ==
    /\ Runs(kMain)
    /\ pc[kMain] = "pop_sei"
    /\ popRet' = TRUE
    /\ popped' = [popped EXCEPT ![pq] = Append(@, <<eventCode, param>>)]
    /\ callLog' = Append(callLog, [pri |-> pq, code |-> eventCode, param |-> param,
                                   handled |-> Uninit,
                                   highLeft |-> mNumEvents[kHighPriority]])
    /\ pc' = [pc EXCEPT ![kMain] = "pop_return"]
    /\ UNCHANGED <<mInterruptSafeMode, queueVars, listenerVars, SREG_I, qe>>
    /\ UNCHANGED <<op, pq, eventCode, param, handledCount, i, handlerCount>>
    /\ UNCHANGED <<accepted, invoked, entry, call>>

\* if ( mInterruptSafeMode ) sei();   return true;
\* (the popped pair and the events still in the high-priority queue are logged)
pop_sei ==
    /\ Runs(kMain)
    /\ pc[kMain] = "pop_sei"
    /\ SREG_I' = IF mInterruptSafeMode THEN TRUE ELSE SREG_I
    /\ popRet' = TRUE
    /\ popped' = [popped EXCEPT ![pq] = Append(@, <<eventCode, param>>)]
    /\ callLog' = Append(callLog, [pri |-> pq, code |-> eventCode, param |-> param,
                                   handled |-> Uninit,
                                   highLeft |-> mNumEvents[kHighPriority]])
    /\ pc' = [pc EXCEPT ![kMain] = "pop_return"]
    /\ UNCHANGED <<mInterruptSafeMode, queueVars, listenerVars, qe>>
    /\ UNCHANGED <<op, pq, eventCode, param, handledCount, i, handlerCount>>
    /\ UNCHANGED <<accepted, invoked, entry, call>>

\* (a variant of processAllEvents whose second loop, on an empty low-priority
\* queue, polls the high-priority queue again instead of returning)
pop_return_repoll ==
    /\ Runs(kMain)
    /\ pc[kMain] = "pop_return"
    /\ IF popRet
          THEN /\ pc' = [pc EXCEPT ![kMain] = "se_loop"]
               /\ i' = 0
               /\ handlerCount' = 0
               /\ invoked' = <<>>
               /\ pq' = pq
          ELSE /\ IF op = "processAllEvents" \/ (pq = kHighPriority /\ handledCount = 0)
                     THEN /\ pq' = IF pq = kHighPriority THEN kLowPriority ELSE kHighPriority
                          /\ pc' = [pc EXCEPT ![kMain] = "pop_isEmpty"]
                     ELSE /\ pq' = pq
                          /\ pc' = [pc EXCEPT ![kMain] = "return"]
               /\ UNCHANGED <<i, handlerCount, invoked>>
    /\ UNCHANGED <<mInterruptSafeMode, queueVars, listenerVars, SREG_I, qe>>
    /\ UNCHANGED <<op, eventCode, param, handledCount, popRet>>
    /\ UNCHANGED <<accepted, popped, callLog, entry, call>>

\* (a variant that returns after a failed pop without polling the
\* low-priority queue)
pop_return_highOnly ==
    /\ Runs(kMain)
    /\ pc[kMain] = "pop_return"
    /\ IF popRet
          THEN /\ pc' = [pc EXCEPT ![kMain] = "se_loop"]
               /\ i' = 0
               /\ handlerCount' = 0
               /\ invoked' = <<>>
          ELSE /\ pc' = [pc EXCEPT ![kMain] = "return"]
               /\ UNCHANGED <<i, handlerCount, invoked>>
    /\ UNCHANGED <<mInterruptSafeMode, queueVars, listenerVars, SREG_I, qe>>
    /\ UNCHANGED <<op, pq, eventCode, param, handledCount, popRet>>
    /\ UNCHANGED <<accepted, popped, callLog, entry, call>>

\* Back in the caller, at the test of popEvent's result:
\*   processEvent:      if ( hi.popEvent() ) ...  if ( !handledCount && lo.popEvent() ) ...
\*   processAllEvents:  while ( hi.popEvent() ) ...  while ( lo.popEvent() ) ...
\* A true result enters sendEvent( eventCode, param ); a false result from the
\* high-priority queue goes on to the low-priority queue (handledCount is 0
\* there in processEvent), a false result from the low-priority queue returns.
pop_return ==
    /\ Runs(kMain)
    /\ pc[kMain] = "pop_return"
    /\ IF popRet
          THEN /\ pc' = [pc EXCEPT ![kMain] = "se_loop"]
               /\ i' = 0
               /\ handlerCount' = 0
               /\ invoked' = <<>>
               /\ pq' = pq
          ELSE /\ IF pq = kHighPriority /\ (op = "processAllEvents" \/ handledCount = 0)
                     THEN /\ pq' = kLowPriority
                          /\ pc' = [pc EXCEPT ![kMain] = "pop_isEmpty"]
                     ELSE /\ pq' = pq
                          /\ pc' = [pc EXCEPT ![kMain] = "return"]
               /\ UNCHANGED <<i, handlerCount, invoked>>
    /\ UNCHANGED <<mInterruptSafeMode, queueVars, listenerVars, SREG_I, qe>>
    /\ UNCHANGED <<op, eventCode, param, handledCount, popRet>>
    /\ UNCHANGED <<accepted, popped, callLog, entry, call>>

PopEventStep ==
    \/ pop_isEmpty
    \/ pop_cli
    \/ pop_readCode
    \/ pop_readParam
    \/ pop_clear
    \/ pop_head
    \/ pop_count
    \/ pop_sei
    \/ pop_return

\* ------------------------------------------------------------ sendEvent
\* The callbacks of this model only record that they ran.
Invoke(cb, code, prm) == Append(invoked, [callback |-> cb, code |-> code, param |-> prm])

\* (a variant of the loop that does not test the enabled flag)
se_loop_ignoreEnabled ==
    /\ Runs(kMain)
    /\ pc[kMain] = "se_loop"
    /\ IF i < mNumListeners
          THEN /\ IF /\ mListeners[i].callback # 0
                     /\ mListeners[i].eventCode = eventCode
                     THEN /\ handlerCount' = handlerCount + 1
                          /\ invoked' = Invoke(mListeners[i].callback, eventCode, param)
                     ELSE UNCHANGED <<handlerCount, invoked>>
               /\ i' = i + 1
               /\ pc' = pc
          ELSE /\ pc' = [pc EXCEPT ![kMain] = "se_default"]
               /\ UNCHANGED <<i, handlerCount, invoked>>
    /\ UNCHANGED <<mInterruptSafeMode, queueVars, listenerVars, SREG_I, qe>>
    /\ UNCHANGED <<op, pq, eventCode, param, handledCount, popRet>>
    /\ UNCHANGED <<accepted, popped, callLog, entry, call>>

\* for ( int i = 0; i < mNumListeners; i++ )
\*     if ( callback != 0 && eventCode == eventCode && enabled )
\*         { handlerCount++; (*callback)( eventCode, param ); }
se_loop ==
    /\ Runs(kMain)
    /\ pc[kMain] = "se_loop"
    /\ IF i < mNumListeners
          THEN /\ IF /\ mListeners[i].callback # 0
                     /\ mListeners[i].eventCode = eventCode
                     /\ mListeners[i].enabled
                     THEN /\ handlerCount' = handlerCount + 1
                          /\ invoked' = Invoke(mListeners[i].callback, eventCode, param)
                     ELSE UNCHANGED <<handlerCount, invoked>>
               /\ i' = i + 1
               /\ pc' = pc
          ELSE /\ pc' = [pc EXCEPT ![kMain] = "se_default"]
               /\ UNCHANGED <<i, handlerCount, invoked>>
    /\ UNCHANGED <<mInterruptSafeMode, queueVars, listenerVars, SREG_I, qe>>
    /\ UNCHANGED <<op, pq, eventCode, param, handledCount, popRet>>
    /\ UNCHANGED <<accepted, popped, callLog, entry, call>>

\* (a variant that does not test mDefaultCallbackEnabled)
se_default_ignoreEnabled ==
    /\ Runs(kMain)
    /\ pc[kMain] = "se_default"
    /\ IF handlerCount = 0 /\ mDefaultCallback # 0
          THEN /\ handlerCount' = handlerCount + 1
               /\ invoked' = Invoke(mDefaultCallback, eventCode, param)
          ELSE UNCHANGED <<handlerCount, invoked>>
    /\ pc' = [pc EXCEPT ![kMain] = "se_return"]
    /\ UNCHANGED <<mInterruptSafeMode, queueVars, listenerVars, SREG_I, qe>>
    /\ UNCHANGED <<op, pq, eventCode, param, handledCount, popRet, i>>
    /\ UNCHANGED <<accepted, popped, callLog, entry, call>>

\* (a variant that does not test handlerCount)
se_default_always ==
    /\ Runs(kMain)
    /\ pc[kMain] = "se_default"
    /\ IF mDefaultCallback # 0 /\ mDefaultCallbackEnabled
          THEN /\ handlerCount' = handlerCount + 1
               /\ invoked' = Invoke(mDefaultCallback, eventCode, param)
          ELSE UNCHANGED <<handlerCount, invoked>>
    /\ pc' = [pc EXCEPT ![kMain] = "se_return"]
    /\ UNCHANGED <<mInterruptSafeMode, queueVars, listenerVars, SREG_I, qe>>
    /\ UNCHANGED <<op, pq, eventCode, param, handledCount, popRet, i>>
    /\ UNCHANGED <<accepted, popped, callLog, entry, call>>

\* (a variant that does not test mDefaultCallback against null)
se_default_noNullCheck ==
    /\ Runs(kMain)
    /\ pc[kMain] = "se_default"
    /\ IF handlerCount = 0 /\ mDefaultCallbackEnabled
          THEN /\ handlerCount' = handlerCount + 1
               /\ invoked' = Invoke(mDefaultCallback, eventCode, param)
          ELSE UNCHANGED <<handlerCount, invoked>>
    /\ pc' = [pc EXCEPT ![kMain] = "se_return"]
    /\ UNCHANGED <<mInterruptSafeMode, queueVars, listenerVars, SREG_I, qe>>
    /\ UNCHANGED <<op, pq, eventCode, param, handledCount, popRet, i>>
    /\ UNCHANGED <<accepted, popped, callLog, entry, call>>

\* if ( !handlerCount )
\*     if ( ( mDefaultCallback != 0 ) && mDefaultCallbackEnabled )
\*         { handlerCount++; (*mDefaultCallback)( eventCode, param ); }
se_default ==
    /\ Runs(kMain)
    /\ pc[kMain] = "se_default"
    /\ IF handlerCount = 0 /\ mDefaultCallback # 0 /\ mDefaultCallbackEnabled
          THEN /\ handlerCount' = handlerCount + 1
               /\ invoked' = Invoke(mDefaultCallback, eventCode, param)
          ELSE UNCHANGED <<handlerCount, invoked>>
    /\ pc' = [pc EXCEPT ![kMain] = "se_return"]
    /\ UNCHANGED <<mInterruptSafeMode, queueVars, listenerVars, SREG_I, qe>>
    /\ UNCHANGED <<op, pq, eventCode, param, handledCount, popRet, i>>
    /\ UNCHANGED <<accepted, popped, callLog, entry, call>>

\* (a variant of processEvent that polls the low-priority queue after every
\* high-priority event, whatever its handled count; processAllEvents as below)
se_return_alwaysLow ==
    /\ Runs(kMain)
    /\ pc[kMain] = "se_return"
    /\ callLog' = [callLog EXCEPT ![Len(callLog)].handled = handlerCount]
    /\ IF op = "processAllEvents"
          THEN /\ handledCount' = handledCount + handlerCount
               /\ pq' = pq
               /\ pc' = [pc EXCEPT ![kMain] = "pop_isEmpty"]
          ELSE /\ handledCount' = handlerCount
               /\ IF pq = kHighPriority
                     THEN /\ pq' = kLowPriority
                          /\ pc' = [pc EXCEPT ![kMain] = "pop_isEmpty"]
                     ELSE /\ pq' = pq
                          /\ pc' = [pc EXCEPT ![kMain] = "return"]
    /\ UNCHANGED <<mInterruptSafeMode, queueVars, listenerVars, SREG_I, qe>>
    /\ UNCHANGED <<op, eventCode, param, popRet, i, handlerCount>>
    /\ UNCHANGED <<accepted, popped, invoked, entry, call>>

\* (a variant of processEvent that returns after any high-priority event)
se_return_neverLow ==
    /\ Runs(kMain)
    /\ pc[kMain] = "se_return"
    /\ callLog' = [callLog EXCEPT ![Len(callLog)].handled = handlerCount]
    /\ IF op = "processAllEvents"
          THEN /\ handledCount' = handledCount + handlerCount
               /\ pq' = pq
               /\ pc' = [pc EXCEPT ![kMain] = "pop_isEmpty"]
          ELSE /\ handledCount' = handlerCount
               /\ pq' = pq
               /\ pc' = [pc EXCEPT ![kMain] = "return"]
    /\ UNCHANGED <<mInterruptSafeMode, queueVars, listenerVars, SREG_I, qe>>
    /\ UNCHANGED <<op, eventCode, param, popRet, i, handlerCount>>
    /\ UNCHANGED <<accepted, popped, invoked, entry, call>>

\* (a variant of processAllEvents that assigns the count of the last event
\* instead of adding it)
se_return_assign ==
    /\ Runs(kMain)
    /\ pc[kMain] = "se_return"
    /\ callLog' = [callLog EXCEPT ![Len(callLog)].handled = handlerCount]
    /\ handledCount' = handlerCount
    /\ IF op = "processAllEvents"
          THEN /\ pq' = pq
               /\ pc' = [pc EXCEPT ![kMain] = "pop_isEmpty"]
          ELSE /\ IF pq = kHighPriority /\ handlerCount = 0
                     THEN /\ pq' = kLowPriority
                          /\ pc' = [pc EXCEPT ![kMain] = "pop_isEmpty"]
                     ELSE /\ pq' = pq
                          /\ pc' = [pc EXCEPT ![kMain] = "return"]
    /\ UNCHANGED <<mInterruptSafeMode, queueVars, listenerVars, SREG_I, qe>>
    /\ UNCHANGED <<op, eventCode, param, popRet, i, handlerCount>>
    /\ UNCHANGED <<accepted, popped, invoked, entry, call>>

\* return handlerCount;  back in the caller:
\*   processEvent:      handledCount = sendEvent(..); after the high-priority
\*                      event, if ( !handledCount && lo.popEvent() ); else return
\*   processAllEvents:  handledCount += sendEvent(..); and the while loop pops again
se_return ==
    /\ Runs(kMain)
    /\ pc[kMain] = "se_return"
    /\ callLog' = [callLog EXCEPT ![Len(callLog)].handled = handlerCount]
    /\ IF op = "processAllEvents"
          THEN /\ handledCount' = handledCount + handlerCount
               /\ pq' = pq
               /\ pc' = [pc EXCEPT ![kMain] = "pop_isEmpty"]
          ELSE /\ handledCount' = handlerCount
               /\ IF pq = kHighPriority /\ handlerCount = 0
                     THEN /\ pq' = kLowPriority
                          /\ pc' = [pc EXCEPT ![kMain] = "pop_isEmpty"]
                     ELSE /\ pq' = pq
                          /\ pc' = [pc EXCEPT ![kMain] = "return"]
    /\ UNCHANGED <<mInterruptSafeMode, queueVars, listenerVars, SREG_I, qe>>
    /\ UNCHANGED <<op, eventCode, param, popRet, i, handlerCount>>
    /\ UNCHANGED <<accepted, popped, invoked, entry, call>>

SendEventStep ==
    \/ se_loop
    \/ se_default
    \/ se_return

\* ------------------------------------------------------------ processing
\* (a variant that polls the low-priority queue first)
Process_lowFirst(name) ==
    /\ Runs(kMain)
    /\ pc[kMain] = "idle"
    /\ op' = name
    /\ pq' = kLowPriority
    /\ eventCode' = Uninit
    /\ param' = Uninit
    /\ handledCount' = 0
    /\ callLog' = <<>>
    /\ entry' = Snapshot
    /\ pc' = [pc EXCEPT ![kMain] = "pop_isEmpty"]
    /\ UNCHANGED <<mInterruptSafeMode, queueVars, listenerVars, SREG_I, qe>>
    /\ UNCHANGED <<popRet, i, handlerCount, accepted, popped, invoked, call>>

\* Entry of processEvent / processAllEvents:
\*   int eventCode; int param; int handledCount = 0;
\* and the first popEvent, on the high-priority queue.
Process(name) ==
    /\ Runs(kMain)
    /\ pc[kMain] = "idle"
    /\ op' = name
    /\ pq' = kHighPriority
    /\ eventCode' = Uninit
    /\ param' = Uninit
    /\ handledCount' = 0
    /\ callLog' = <<>>
    /\ entry' = Snapshot
    /\ pc' = [pc EXCEPT ![kMain] = "pop_isEmpty"]
    /\ UNCHANGED <<mInterruptSafeMode, queueVars, listenerVars, SREG_I, qe>>
    /\ UNCHANGED <<popRet, i, handlerCount, accepted, popped, invoked, call>>

processEvent == Process("processEvent")

processAllEvents == Process("processAllEvents")

\* return handledCount;   (the locals die with the call)
return ==
    /\ Runs(kMain)
    /\ pc[kMain] = "return"
    /\ pc' = [pc EXCEPT ![kMain] = "idle"]
    /\ op' = "none"
    /\ pq' = kHighPriority
    /\ eventCode' = Uninit
    /\ param' = Uninit
    /\ handledCount' = 0
    /\ popRet' = FALSE
    /\ i' = 0
    /\ handlerCount' = 0
    /\ invoked' = <<>>
    /\ callLog' = <<>>
    /\ entry' = NoEntry
    /\ UNCHANGED <<mInterruptSafeMode, queueVars, listenerVars, SREG_I, qe, accepted, popped, call>>

\* ------------------------------------------------------------ listener table
\* ListenerList::isEmpty, isFull (of the table)
isListenerListEmpty == mNumListeners = 0
\* (a variant that is off by one: full only above the capacity)
isListenerListFull_offByOne == mNumListeners > kMaxListeners
isListenerListFull == mNumListeners = kMaxListeners

\* searchListeners( eventCode, listener ): the loop from index k on.
RECURSIVE searchPairFrom(_, _, _, _, _)
searchPairFrom(k, list, n, code, listener) ==
    IF k < n
       THEN IF list[k].eventCode = code /\ list[k].callback = listener
               THEN k
               ELSE searchPairFrom(k + 1, list, n, code, listener)
       ELSE -1

searchListeners(code, listener) == searchPairFrom(0, mListeners, mNumListeners, code, listener)

\* searchListeners( listener ): the loop from index k on.
RECURSIVE searchCallbackFrom(_, _, _, _)
searchCallbackFrom(k, list, n, listener) ==
    IF k < n
       THEN IF list[k].callback = listener THEN k ELSE searchCallbackFrom(k + 1, list, n, listener)
       ELSE -1

\* for ( i = k; i < mNumListeners - 1; i++ ) mListeners[ i ] = mListeners[ i + 1 ];
\* (the entry at mNumListeners - 1 keeps its old content)
ShiftDown(list, n, k) ==
    [j \in DOMAIN list |-> IF k <= j /\ j < n - 1 THEN list[j + 1] ELSE list[j]]

\* The listener-table calls run in the main context, between two queue calls.
ListenerCall(name, code, listener, flag, ret) ==
    /\ pc' = [pc EXCEPT ![kMain] = "l_return"]
    /\ op' = name
    /\ entry' = Snapshot
    /\ call' = [name |-> name, eventCode |-> code, listener |-> listener, flag |-> flag, ret |-> ret]
    /\ UNCHANGED <<mInterruptSafeMode, queueVars, SREG_I, qe>>
    /\ UNCHANGED <<pq, eventCode, param, handledCount, popRet, i, handlerCount>>
    /\ UNCHANGED <<accepted, popped, invoked, callLog>>

AtIdle == Runs(kMain) /\ pc[kMain] = "idle"

\* (a variant that does not append a pair the table already holds)
addListener_dedup(code, listener) ==
    /\ AtIdle
    /\ IF listener = 0 \/ isListenerListFull
          THEN /\ UNCHANGED listenerVars
               /\ ListenerCall("addListener", code, listener, FALSE, FALSE)
          ELSE IF searchListeners(code, listener) >= 0
          THEN /\ UNCHANGED listenerVars
               /\ ListenerCall("addListener", code, listener, FALSE, TRUE)
          ELSE /\ mListeners' = [mListeners EXCEPT ![mNumListeners] =
                                    [callback |-> listener, eventCode |-> code, enabled |-> TRUE]]
               /\ mNumListeners' = mNumListeners + 1
               /\ UNCHANGED <<mDefaultCallback, mDefaultCallbackEnabled>>
               /\ ListenerCall("addListener", code, listener, FALSE, TRUE)

\* (a variant without the argument check)
addListener_acceptNull(code, listener) ==
    /\ AtIdle
    /\ IF isListenerListFull
          THEN /\ UNCHANGED listenerVars
               /\ ListenerCall("addListener", code, listener, FALSE, FALSE)
          ELSE /\ mListeners' = [mListeners EXCEPT ![mNumListeners] =
                                    [callback |-> listener, eventCode |-> code, enabled |-> TRUE]]
               /\ mNumListeners' = mNumListeners + 1
               /\ UNCHANGED <<mDefaultCallback, mDefaultCallbackEnabled>>
               /\ ListenerCall("addListener", code, listener, FALSE, TRUE)

\* ListenerList::addListener( eventCode, listener )
addListener(code, listener) ==
    /\ AtIdle
    /\ IF listener = 0 \/ isListenerListFull
          THEN /\ UNCHANGED listenerVars
               /\ ListenerCall("addListener", code, listener, FALSE, FALSE)
          ELSE /\ mListeners' = [mListeners EXCEPT ![mNumListeners] =
                                    [callback |-> listener, eventCode |-> code, enabled |-> TRUE]]
               /\ mNumListeners' = mNumListeners + 1
               /\ UNCHANGED <<mDefaultCallback, mDefaultCallbackEnabled>>
               /\ ListenerCall("addListener", code, listener, FALSE, TRUE)

\* (a variant that removes the last entry of the pair instead of the first)
removeListener_lastMatch(code, listener) ==
    /\ AtIdle
    /\ LET S == {j \in 0 .. mNumListeners - 1 :
                    mListeners[j].eventCode = code /\ mListeners[j].callback = listener}
       IN
       IF mNumListeners = 0 \/ S = {}
          THEN /\ UNCHANGED listenerVars
               /\ ListenerCall("removeListener", code, listener, FALSE, FALSE)
          ELSE LET k == CHOOSE j \in S : \A m \in S : m <= j IN
               /\ mListeners' = ShiftDown(mListeners, mNumListeners, k)
               /\ mNumListeners' = mNumListeners - 1
               /\ UNCHANGED <<mDefaultCallback, mDefaultCallbackEnabled>>
               /\ ListenerCall("removeListener", code, listener, FALSE, TRUE)

\* (a variant that removes every entry of the pair)
removeListener_allOccurrences(code, listener) ==
    /\ AtIdle
    /\ LET kept == SelectSeq([j \in 1 .. mNumListeners |-> mListeners[j - 1]],
                             LAMBDA r : ~(r.eventCode = code /\ r.callback = listener))
       IN
       IF mNumListeners = 0 \/ Len(kept) = mNumListeners
          THEN /\ UNCHANGED listenerVars
               /\ ListenerCall("removeListener", code, listener, FALSE, FALSE)
          ELSE /\ mListeners' = [j \in DOMAIN mListeners |->
                                    IF j < Len(kept) THEN kept[j + 1] ELSE mListeners[j]]
               /\ mNumListeners' = Len(kept)
               /\ UNCHANGED <<mDefaultCallback, mDefaultCallbackEnabled>>
               /\ ListenerCall("removeListener", code, listener, FALSE, TRUE)

\* ListenerList::removeListener( eventCode, listener )
removeListener(code, listener) ==
    /\ AtIdle
    /\ LET k == searchListeners(code, listener) IN
       IF mNumListeners = 0 \/ k < 0
          THEN /\ UNCHANGED listenerVars
               /\ ListenerCall("removeListener", code, listener, FALSE, FALSE)
          ELSE /\ mListeners' = ShiftDown(mListeners, mNumListeners, k)
               /\ mNumListeners' = mNumListeners - 1
               /\ UNCHANGED <<mDefaultCallback, mDefaultCallbackEnabled>>
               /\ ListenerCall("removeListener", code, listener, FALSE, TRUE)

\* ListenerList::removeListener( listener ): the while loop, as the table,
\* the count and the number removed after it.
RECURSIVE removeAllFrom(_, _, _, _)
removeAllFrom(list, n, listener, removed) ==
    LET k == searchCallbackFrom(0, list, n, listener) IN
    IF k >= 0
       THEN removeAllFrom(ShiftDown(list, n, k), n - 1, listener, removed + 1)
       ELSE [list |-> list, n |-> n, removed |-> removed]

\* (a variant without the while loop: only the first entry is removed)
removeListenerAll_firstOnly(listener) ==
    /\ AtIdle
    /\ LET k == searchCallbackFrom(0, mListeners, mNumListeners, listener) IN
       IF mNumListeners = 0 \/ k < 0
          THEN /\ UNCHANGED listenerVars
               /\ ListenerCall("removeListenerAll", 0, listener, FALSE, 0)
          ELSE /\ mListeners' = ShiftDown(mListeners, mNumListeners, k)
               /\ mNumListeners' = mNumListeners - 1
               /\ UNCHANGED <<mDefaultCallback, mDefaultCallbackEnabled>>
               /\ ListenerCall("removeListenerAll", 0, listener, FALSE, 1)

removeListenerAll(listener) ==
    /\ AtIdle
    /\ IF mNumListeners = 0
          THEN /\ UNCHANGED listenerVars
               /\ ListenerCall("removeListenerAll", 0, listener, FALSE, 0)
          ELSE LET r == removeAllFrom(mListeners, mNumListeners, listener, 0) IN
               /\ mListeners' = r.list
               /\ mNumListeners' = r.n
               /\ UNCHANGED <<mDefaultCallback, mDefaultCallbackEnabled>>
               /\ ListenerCall("removeListenerAll", 0, listener, FALSE, r.removed)

\* (a variant that enables the entry whatever the argument)
enableListener_alwaysOn(code, listener, enable) ==
    /\ AtIdle
    /\ LET k == searchListeners(code, listener) IN
       IF mNumListeners = 0 \/ k < 0
          THEN /\ UNCHANGED listenerVars
               /\ ListenerCall("enableListener", code, listener, enable, FALSE)
          ELSE /\ mListeners' = [mListeners EXCEPT ![k].enabled = TRUE]
               /\ UNCHANGED <<mNumListeners, mDefaultCallback, mDefaultCallbackEnabled>>
               /\ ListenerCall("enableListener", code, listener, enable, TRUE)

\* (a variant that sets the flag of every entry of the pair)
enableListener_allMatches(code, listener, enable) ==
    /\ AtIdle
    /\ LET k == searchListeners(code, listener) IN
       IF mNumListeners = 0 \/ k < 0
          THEN /\ UNCHANGED listenerVars
               /\ ListenerCall("enableListener", code, listener, enable, FALSE)
          ELSE /\ mListeners' = [j \in DOMAIN mListeners |->
                                    IF /\ j < mNumListeners
                                       /\ mListeners[j].eventCode = code
                                       /\ mListeners[j].callback = listener
                                       THEN [mListeners[j] EXCEPT !.enabled = enable]
                                       ELSE mListeners[j]]
               /\ UNCHANGED <<mNumListeners, mDefaultCallback, mDefaultCallbackEnabled>>
               /\ ListenerCall("enableListener", code, listener, enable, TRUE)

\* ListenerList::enableListener( eventCode, listener, enable )
enableListener(code, listener, enable) ==
    /\ AtIdle
    /\ LET k == searchListeners(code, listener) IN
       IF mNumListeners = 0 \/ k < 0
          THEN /\ UNCHANGED listenerVars
               /\ ListenerCall("enableListener", code, listener, enable, FALSE)
          ELSE /\ mListeners' = [mListeners EXCEPT ![k].enabled = enable]
               /\ UNCHANGED <<mNumListeners, mDefaultCallback, mDefaultCallbackEnabled>>
               /\ ListenerCall("enableListener", code, listener, enable, TRUE)

\* ListenerList::isListenerEnabled( eventCode, listener )
isListenerEnabledValue(code, listener) ==
    LET k == searchListeners(code, listener) IN
    IF mNumListeners = 0 \/ k < 0 THEN FALSE ELSE mListeners[k].enabled

isListenerEnabled(code, listener) ==
    /\ AtIdle
    /\ UNCHANGED listenerVars
    /\ ListenerCall("isListenerEnabled", code, listener, FALSE, isListenerEnabledValue(code, listener))

\* (a variant that installs the callback without enabling it)
setDefaultListener_keepFlag(listener) ==
    /\ AtIdle
    /\ IF listener = 0
          THEN /\ UNCHANGED listenerVars
               /\ ListenerCall("setDefaultListener", 0, listener, FALSE, FALSE)
          ELSE /\ mDefaultCallback' = listener
               /\ UNCHANGED <<mListeners, mNumListeners, mDefaultCallbackEnabled>>
               /\ ListenerCall("setDefaultListener", 0, listener, FALSE, TRUE)

\* ListenerList::setDefaultListener( listener )
setDefaultListener(listener) ==
    /\ AtIdle
    /\ IF listener = 0
          THEN /\ UNCHANGED listenerVars
               /\ ListenerCall("setDefaultListener", 0, listener, FALSE, FALSE)
          ELSE /\ mDefaultCallback' = listener
               /\ mDefaultCallbackEnabled' = TRUE
               /\ UNCHANGED <<mListeners, mNumListeners>>
               /\ ListenerCall("setDefaultListener", 0, listener, FALSE, TRUE)

\* ListenerList::removeDefaultListener()
removeDefaultListener ==
    /\ AtIdle
    /\ mDefaultCallback' = 0
    /\ mDefaultCallbackEnabled' = FALSE
    /\ UNCHANGED <<mListeners, mNumListeners>>
    /\ ListenerCall("removeDefaultListener", 0, 0, FALSE, FALSE)

\* ListenerList::enableDefaultListener( enable )
enableDefaultListener(enable) ==
    /\ AtIdle
    /\ mDefaultCallbackEnabled' = enable
    /\ UNCHANGED <<mListeners, mNumListeners, mDefaultCallback>>
    /\ ListenerCall("enableDefaultListener", 0, 0, enable, FALSE)

\* The listener-table call returns to loop().
l_return ==
    /\ Runs(kMain)
    /\ pc[kMain] = "l_return"
    /\ pc' = [pc EXCEPT ![kMain] = "idle"]
    /\ op' = "none"
    /\ entry' = NoEntry
    /\ call' = NoCall
    /\ UNCHANGED <<mInterruptSafeMode, queueVars, listenerVars, SREG_I, qe>>
    /\ UNCHANGED <<pq, eventCode, param, handledCount, popRet, i, handlerCount>>
    /\ UNCHANGED <<accepted, popped, invoked, callLog>>

\* ------------------------------------------------------------ specifications
\* The sketch's listeners: callback 1 listens to event code 1 (code 2 has no
\* listener), callback 2 is the default listener.
Next ==
    \/ \E code \in Codes, pri \in Priorities : queueEvent(code, NextParam, pri)
    \/ QueueEventStep(kMain)
    \/ qe_return
    \/ processEvent
    \/ processAllEvents
    \/ PopEventStep
    \/ SendEventStep
    \/ return
    \/ addListener(1, 1)
    \/ \E enable \in BOOLEAN : enableListener(1, 1, enable)
    \/ setDefaultListener(2)
    \/ \E enable \in BOOLEAN : enableDefaultListener(enable)
    \/ l_return

Spec == Init /\ [][Next]_vars

\* A sketch in which normal code queues events of code 1 and an interrupt
\* handler queues events of code 2; no listener is registered.
NextISR ==
    \/ \E pri \in Priorities : queueEvent(1, NextParam, pri)
    \/ \E pri \in Priorities : interruptHandler(2, NextParam, pri)
    \/ QueueEventStep(kMain)
    \/ QueueEventStep(kISR)
    \/ qe_return
    \/ reti
    \/ processEvent
    \/ processAllEvents
    \/ PopEventStep
    \/ SendEventStep
    \/ return

SpecISR == Init /\ [][NextISR]_vars

\* The steps of the call normal code is in, up to its return.
MainRunning ==
    \/ QueueEventStep(kMain)
    \/ qe_return
    \/ PopEventStep
    \/ SendEventStep
    \/ return

\* The steps of a started interrupt handler, up to its reti.
ISRRunning ==
    \/ QueueEventStep(kISR)
    \/ reti

\* Scheduling: a started interrupt handler runs to completion; interrupts
\* leave normal code time to advance; loop() calls processEvent again and
\* again.
Fairness ==
    /\ WF_vars(ISRRunning)
    /\ SF_vars(MainRunning)
    /\ SF_vars(processEvent)

SpecISRFair == SpecISR /\ Fairness

\* A sketch that manages its listener table between events: any pair of
\* code and callback is added, enabled and disabled, callback 2 is installed
\* as default listener and switched on and off, and events of code 1 are
\* queued at low priority and dispatched one per processEvent.
NextListeners ==
    \/ queueEvent(1, NextParam, kLowPriority)
    \/ QueueEventStep(kMain)
    \/ qe_return
    \/ processEvent
    \/ PopEventStep
    \/ SendEventStep
    \/ return
    \/ \E code \in Codes, listener \in Callbacks : addListener(code, listener)
    \/ \E code \in Codes, listener \in Callbacks, enable \in BOOLEAN :
          enableListener(code, listener, enable)
    \/ setDefaultListener(2)
    \/ \E enable \in BOOLEAN : enableDefaultListener(enable)
    \/ l_return

SpecListeners == Init /\ [][NextListeners]_vars

\* A sketch that only manages its listener table: every listener-table call
\* with any code, any callback (the null callback 0 included) and any flag.
NextRegistry ==
    \/ \E code \in Codes, listener \in Callbacks \cup {0} : addListener(code, listener)
    \/ \E code \in Codes, listener \in Callbacks : removeListener(code, listener)
    \/ \E listener \in Callbacks : removeListenerAll(listener)
    \/ \E code \in Codes, listener \in Callbacks, enable \in BOOLEAN :
          enableListener(code, listener, enable)
    \/ \E code \in Codes, listener \in Callbacks : isListenerEnabled(code, listener)
    \/ \E listener \in Callbacks \cup {0} : setDefaultListener(listener)
    \/ removeDefaultListener
    \/ \E enable \in BOOLEAN : enableDefaultListener(enable)
    \/ l_return

SpecRegistry == Init /\ [][NextRegistry]_vars

\* Normal code masks and unmasks interrupts itself, between two calls.
noInterrupts ==
    /\ AtIdle
    /\ SREG_I
    /\ SREG_I' = FALSE
    /\ UNCHANGED <<mInterruptSafeMode, queueVars, listenerVars, pc, qe, mainLocals, historyVars>>

interrupts ==
    /\ AtIdle
    /\ ~SREG_I
    /\ SREG_I' = TRUE
    /\ UNCHANGED <<mInterruptSafeMode, queueVars, listenerVars, pc, qe, mainLocals, historyVars>>

\* A sketch without interrupt handler that queues and processes events,
\* some of them with interrupts masked by the caller.
NextMasked ==
    \/ \E pri \in Priorities : queueEvent(1, NextParam, pri)
    \/ QueueEventStep(kMain)
    \/ qe_return
    \/ processEvent
    \/ PopEventStep
    \/ SendEventStep
    \/ return
    \/ noInterrupts
    \/ interrupts

SpecMasked == Init /\ [][NextMasked]_vars

\* EventManager( safety ) with either safety mode.
InitEitherMode ==
    /\ mInterruptSafeMode \in BOOLEAN
    /\ InitQueues
    /\ InitListeners
    /\ InitControl

\* Two producers and no consumer: normal code queues events of code 1 and
\* an interrupt handler queues events of code 2.
NextProducers ==
    \/ \E pri \in Priorities : queueEvent(1, NextParam, pri)
    \/ \E pri \in Priorities : interruptHandler(2, NextParam, pri)
    \/ QueueEventStep(kMain)
    \/ QueueEventStep(kISR)
    \/ qe_return
    \/ reti

SpecProducers == InitEitherMode /\ [][NextProducers]_vars

\* What a callback does to the listener table while sendEvent runs it:
\* nothing, or one addListener or removeListener call for event code 1.
CallbackActs ==
    {[name |-> "none", eventCode |-> 0, listener |-> 0]}
        \cup {[name |-> n, eventCode |-> 1, listener |-> l] :
                 n \in {"addListener", "removeListener"}, l \in Callbacks}

\* The table and the count that such a call leaves (addListener and
\* removeListener as above, called from inside a callback).
TableAfter(act) ==
    IF act.name = "addListener"
       THEN IF act.listener = 0 \/ isListenerListFull
               THEN [list |-> mListeners, n |-> mNumListeners, ret |-> FALSE]
               ELSE [list |-> [mListeners EXCEPT ![mNumListeners] =
                                  [callback |-> act.listener, eventCode |-> act.eventCode,
                                   enabled |-> TRUE]],
                     n |-> mNumListeners + 1, ret |-> TRUE]
       ELSE IF act.name = "removeListener"
               THEN LET k == searchListeners(act.eventCode, act.listener) IN
                    IF mNumListeners = 0 \/ k < 0
                       THEN [list |-> mListeners, n |-> mNumListeners, ret |-> FALSE]
                       ELSE [list |-> ShiftDown(mListeners, mNumListeners, k),
                             n |-> mNumListeners - 1, ret |-> TRUE]
               ELSE [list |-> mListeners, n |-> mNumListeners, ret |-> FALSE]

\* The successful addListener and removeListener calls that callbacks made
\* during the dispatch of the event with this parameter.
DispatchCalls(prm) ==
    IF call.name = "dispatch" /\ call.param = prm
       THEN call
       ELSE [name |-> "dispatch", param |-> prm, added |-> 0, removed |-> 0]

\* (a variant of the loop that tests its index against the number of
\* listeners that sendEvent found when the call began)
se_loopCallbacks_cachedCount ==
    /\ Runs(kMain)
    /\ pc[kMain] = "se_loop"
    /\ IF i < entry.numListeners
          THEN /\ IF /\ mListeners[i].callback # 0
                     /\ mListeners[i].eventCode = eventCode
                     /\ mListeners[i].enabled
                     THEN /\ handlerCount' = handlerCount + 1
                          /\ invoked' = Invoke(mListeners[i].callback, eventCode, param)
                          /\ \E act \in CallbackActs :
                                LET after == TableAfter(act) IN
                                /\ mListeners' = after.list
                                /\ mNumListeners' = after.n
                                /\ call' = [DispatchCalls(param) EXCEPT
                                               !.added = @ + (IF after.n > mNumListeners THEN 1 ELSE 0),
                                               !.removed = @ + (IF after.n < mNumListeners THEN 1 ELSE 0)]
                     ELSE UNCHANGED <<handlerCount, invoked, mListeners, mNumListeners, call>>
               /\ i' = i + 1
               /\ pc' = pc
          ELSE /\ pc' = [pc EXCEPT ![kMain] = "se_default"]
               /\ UNCHANGED <<i, handlerCount, invoked, mListeners, mNumListeners, call>>
    /\ UNCHANGED <<mInterruptSafeMode, queueVars, mDefaultCallback, mDefaultCallbackEnabled>>
    /\ UNCHANGED <<SREG_I, qe, op, pq, eventCode, param, handledCount, popRet>>
    /\ UNCHANGED <<accepted, popped, callLog, entry>>

\* The loop of sendEvent with callbacks that call addListener or
\* removeListener:
\*   for ( int i = 0; i < mNumListeners; i++ )
\*       if ( callback != 0 && eventCode == eventCode && enabled )
\*           { handlerCount++; (*callback)( eventCode, param ); }
\* mNumListeners is read again at every test; the callback has returned, and
\* its table call with it, before i++.
se_loopCallbacks ==
    /\ Runs(kMain)
    /\ pc[kMain] = "se_loop"
    /\ IF i < mNumListeners
          THEN /\ IF /\ mListeners[i].callback # 0
                     /\ mListeners[i].eventCode = eventCode
                     /\ mListeners[i].enabled
                     THEN /\ handlerCount' = handlerCount + 1
                          /\ invoked' = Invoke(mListeners[i].callback, eventCode, param)
                          /\ \E act \in CallbackActs :
                                LET after == TableAfter(act) IN
                                /\ mListeners' = after.list
                                /\ mNumListeners' = after.n
                                /\ call' = [DispatchCalls(param) EXCEPT
                                               !.added = @ + (IF after.n > mNumListeners THEN 1 ELSE 0),
                                               !.removed = @ + (IF after.n < mNumListeners THEN 1 ELSE 0)]
                     ELSE UNCHANGED <<handlerCount, invoked, mListeners, mNumListeners, call>>
               /\ i' = i + 1
               /\ pc' = pc
          ELSE /\ pc' = [pc EXCEPT ![kMain] = "se_default"]
               /\ UNCHANGED <<i, handlerCount, invoked, mListeners, mNumListeners, call>>
    /\ UNCHANGED <<mInterruptSafeMode, queueVars, mDefaultCallback, mDefaultCallbackEnabled>>
    /\ UNCHANGED <<SREG_I, qe, op, pq, eventCode, param, handledCount, popRet>>
    /\ UNCHANGED <<accepted, popped, callLog, entry>>

\* A sketch whose callbacks add and remove listeners: loop() registers
\* callbacks for event code 1, queues events of code 1 and calls processEvent.
NextCallbacks ==
    \/ queueEvent(1, NextParam, kLowPriority)
    \/ QueueEventStep(kMain)
    \/ qe_return
    \/ processEvent
    \/ PopEventStep
    \/ se_loopCallbacks
    \/ se_default
    \/ se_return
    \/ return
    \/ \E listener \in Callbacks : addListener(1, listener)
    \/ l_return

SpecCallbacks == Init /\ [][NextCallbacks]_vars

\* A sketch that installs, removes, enables and disables the default
\* listener between events: callback 1 may listen to event code 1, and events
\* of code 1 are queued at low priority and dispatched one per processEvent.
NextDefault ==
    \/ queueEvent(1, NextParam, kLowPriority)
    \/ QueueEventStep(kMain)
    \/ qe_return
    \/ processEvent
    \/ PopEventStep
    \/ SendEventStep
    \/ return
    \/ addListener(1, 1)
    \/ \E enable \in BOOLEAN : enableListener(1, 1, enable)
    \/ \E listener \in Callbacks \cup {0} : setDefaultListener(listener)
    \/ removeDefaultListener
    \/ \E enable \in BOOLEAN : enableDefaultListener(enable)
    \/ l_return

SpecDefault == Init /\ [][NextDefault]_vars

\* A sketch whose loop() queues events of either code at either priority,
\* registers callback 1 for code 1 and calls processEvent again and again.
NextLoop ==
    \/ \E code \in Codes, pri \in Priorities : queueEvent(code, NextParam, pri)
    \/ QueueEventStep(kMain)
    \/ qe_return
    \/ processEvent
    \/ PopEventStep
    \/ SendEventStep
    \/ return
    \/ addListener(1, 1)
    \/ l_return

SpecLoop == Init /\ [][NextLoop]_vars

\* Scheduling: a call in progress runs to its return, and loop() calls
\* processEvent again and again.
FairnessLoop ==
    /\ WF_vars(MainRunning)
    /\ WF_vars(l_return)
    /\ SF_vars(processEvent)

SpecLoopFair == SpecLoop /\ FairnessLoop

\* ------------------------------------------------------------ properties
\* The events a queue holds, oldest first: mNumEvents slots from the head on.
LiveOf(queue, head, num, q) ==
    [k \in 1 .. num[q] |->
        LET e == queue[q][(head[q] + k - 1) % kEventQueueSize] IN <<e.code, e.param>>]
Live(q) == LiveOf(mEventQueue, mEventQueueHead, mNumEvents, q)
LiveAtEntry(q) == LiveOf(entry.queue, entry.head, entry.num, q)

\* C1: within one priority queue the k-th successful popEvent returns the
\* (code, param) pair stored by the k-th successful queueEvent, for every
\* interleaving of the calls, also across the wrap-around of head and tail.
C1_FifoPerQueue ==
    \A q \in Priorities :
        \A k \in 1 .. Len(popped[q]) :
            k <= Len(accepted[q]) /\ popped[q][k] = accepted[q][k]

\* Three events went through one queue of the model's capacity: the third
\* was stored and popped after both indices had wrapped.
C1_Witness ==
    \E q \in Priorities : Len(popped[q]) > kEventQueueSize

\* C3: queueEvent on a queue whose count equals the capacity, however that
\* state was reached, returns false and leaves head, tail, count and every
\* slot of the queue as the call found them.
C3_FullQueueRejects ==
    (op = "queueEvent" /\ entry.num[qe[kMain].pri] = kEventQueueSize) =>
        /\ mEventQueue[qe[kMain].pri] = entry.queue[qe[kMain].pri]
        /\ mEventQueueHead[qe[kMain].pri] = entry.head[qe[kMain].pri]
        /\ mEventQueueTail[qe[kMain].pri] = entry.tail[qe[kMain].pri]
        /\ mNumEvents[qe[kMain].pri] = entry.num[qe[kMain].pri]
        /\ (pc[kMain] = "qe_return" => qe[kMain].retVal = FALSE)

\* A rejected call returns on a queue that became full after a pop: its head
\* is not at the start of the array.
C3_Witness ==
    /\ pc[kMain] = "qe_return"
    /\ entry.num[qe[kMain].pri] = kEventQueueSize
    /\ entry.head[qe[kMain].pri] # 0
    /\ qe[kMain].retVal = FALSE

\* C4: when both queues are non-empty at the start of a processEvent call,
\* the first event the call pops and dispatches is the head of the
\* high-priority queue, and the low-priority queue is not polled before
\* that event has been dispatched.
C4_HighFirst ==
    (op = "processEvent" /\ entry.num[kHighPriority] > 0 /\ entry.num[kLowPriority] > 0) =>
        /\ callLog # <<>> =>
              /\ callLog[1].pri = kHighPriority
              /\ <<callLog[1].code, callLog[1].param>> = LiveAtEntry(kHighPriority)[1]
        /\ pq = kLowPriority => (callLog # <<>> /\ callLog[1].handled # Uninit)
        /\ pc[kMain] = "return" => callLog # <<>>

\* Such a call has dispatched its high-priority event and returns.
C4_Witness ==
    /\ op = "processEvent"
    /\ pc[kMain] = "return"
    /\ entry.num[kHighPriority] > 0
    /\ entry.num[kLowPriority] > 0
    /\ callLog[1].handled > 0

\* The number of callbacks one dispatch of `code` runs on the listener table
\* the call found: the enabled entries registered for the code or, when
\* there is none, the default listener if it is installed and enabled.
EnabledFor(code) ==
    {k \in 0 .. (entry.numListeners - 1) :
        /\ entry.listeners[k].callback # 0
        /\ entry.listeners[k].eventCode = code
        /\ entry.listeners[k].enabled}
HandledFor(code) ==
    IF EnabledFor(code) # {}
       THEN Cardinality(EnabledFor(code))
       ELSE IF entry.defaultCallback # 0 /\ entry.defaultEnabled THEN 1 ELSE 0

PopsFrom(q) == Cardinality({k \in DOMAIN callLog : callLog[k].pri = q})

C6_HighBeforeLow ==
    \A k \in DOMAIN callLog : callLog[k].pri = kLowPriority => callLog[k].highLeft = 0

RECURSIVE SumHandled(_)
SumHandled(events) ==
    IF events = <<>> THEN 0 ELSE HandledFor(Head(events)[1]) + SumHandled(Tail(events))

\* C8: with no event submitted during the call, processAllEvents returns the
\* sum, over every event queued at entry in either queue, of the number of
\* callbacks invoked for it, and both queues are empty when it returns.
C8_DrainAllTotals ==
    (op = "processAllEvents" /\ pc[kMain] = "return") =>
        /\ handledCount = SumHandled(LiveAtEntry(kHighPriority) \o LiveAtEntry(kLowPriority))
        /\ [k \in DOMAIN callLog |-> <<callLog[k].code, callLog[k].param>>]
              = LiveAtEntry(kHighPriority) \o LiveAtEntry(kLowPriority)
        /\ \A k \in DOMAIN callLog : callLog[k].handled = HandledFor(callLog[k].code)
        /\ \A q \in Priorities : isEmpty(q) /\ Live(q) = <<>>

\* A call returns after it drained events of both priorities, one of them
\* handled by two callbacks and one by none.
C8_Witness ==
    /\ op = "processAllEvents"
    /\ pc[kMain] = "return"
    /\ PopsFrom(kHighPriority) > 0
    /\ PopsFrom(kLowPriority) > 0
    /\ \E k \in DOMAIN callLog : callLog[k].handled = 2
    /\ \E k \in DOMAIN callLog : callLog[k].handled = 0
    /\ handledCount > Len(callLog)

QueueShape(q) ==
    /\ mNumEvents[q] \in 0 .. kEventQueueSize
    /\ mEventQueueHead[q] \in Slots
    /\ mEventQueueTail[q] \in Slots

\* Between atomic sections the ring is consistent and holds, oldest first,
\* exactly the accepted events that have not been popped.
QueueConsistent(q) ==
    /\ mEventQueueTail[q] = (mEventQueueHead[q] + mNumEvents[q]) % kEventQueueSize
    /\ popped[q] \o Live(q) = accepted[q]

\* C2 (safety): in interrupt-safe mode, with an interrupt handler that may
\* queue events wherever interrupts are not masked, every state has
\* 0 <= count <= capacity, and whenever interrupts are not masked
\* tail = (head + count) mod capacity and the slots from head hold exactly
\* the accepted, not yet popped events in order: none was overwritten,
\* lost or popped twice.
C2_Safety ==
    mInterruptSafeMode =>
        \A q \in Priorities :
            /\ QueueShape(q)
            /\ SREG_I => QueueConsistent(q)

\* C2: the safety part in every state and, as loop() keeps calling
\* processEvent, every accepted event is eventually popped.
C2_InterruptSafe ==
    /\ []C2_Safety
    /\ \A q \in Priorities : \A k \in 1 .. MaxSubmits :
          (Len(accepted[q]) >= k) ~> (Len(popped[q]) >= k)

\* The interrupt handler's event was accepted while normal code was inside
\* queueEvent for the same queue (before its atomic section), the queue is
\* now full with both events, and the call of normal code is rejected.
C2_Witness ==
    /\ pc[kMain] = "qe_return"
    /\ qe[kMain].retVal = FALSE
    /\ entry.num[qe[kMain].pri] < kEventQueueSize
    /\ isFull(qe[kMain].pri)
    /\ Len(popped[qe[kMain].pri]) > 0

\* A processAllEvents call stands at its return statement.
DrainReturns == op = "processAllEvents" /\ pc[kMain] = "return"

\* No event was accepted since the entry of the running call.
NoSubmissionSinceEntry ==
    Len(accepted[kHighPriority]) + Len(accepted[kLowPriority]) = entry.submits

\* C9: with an interrupt handler that submits a bounded number of events,
\* every processAllEvents call reaches its return; and a call during which no
\* event was submitted has then performed exactly as many successful pops as
\* there were events in the two queues at its entry.
C9_DrainTerminates ==
    /\ (op = "processAllEvents") ~> DrainReturns
    /\ [](DrainReturns /\ NoSubmissionSinceEntry =>
            Len(callLog) = entry.num[kHighPriority] + entry.num[kLowPriority])

\* A call returns although the interrupt handler submitted during it: it
\* popped more events than were queued at its entry.
C9_Witness ==
    /\ DrainReturns
    /\ entry.num[kHighPriority] + entry.num[kLowPriority] >= 1
    /\ Len(callLog) > entry.num[kHighPriority] + entry.num[kLowPriority]

\* The indices, in table order, of the enabled entries for the code that
\* sendEvent dispatches.
MatchingEntries ==
    SelectSeq([k \in 1 .. mNumListeners |-> k - 1],
              LAMBDA k : mListeners[k].eventCode = eventCode /\ mListeners[k].enabled)

\* C10: when sendEvent returns it has invoked, once each and in registration
\* order, exactly the enabled entries whose code is the dispatched code, each
\* with the dispatched (code, param); if there is none it has invoked only
\* the default listener, if one is set and enabled; it returns the number of
\* callbacks invoked.
C10_SendEventDispatch ==
    pc[kMain] = "se_return" =>
        LET m == MatchingEntries IN
        /\ <<eventCode, param>> = popped[pq][Len(popped[pq])]
        /\ m # <<>> =>
              invoked = [j \in 1 .. Len(m) |->
                            [callback |-> mListeners[m[j]].callback,
                             code |-> eventCode, param |-> param]]
        /\ m = <<>> =>
              invoked = IF mDefaultCallback # 0 /\ mDefaultCallbackEnabled
                           THEN <<[callback |-> mDefaultCallback,
                                   code |-> eventCode, param |-> param]>>
                           ELSE <<>>
        /\ handlerCount = Len(invoked)

\* sendEvent returns 1 with a table of two entries for the code, the first
\* one disabled: only the second was invoked.
C10_Witness ==
    /\ pc[kMain] = "se_return"
    /\ mNumListeners = 2
    /\ mListeners[0].eventCode = eventCode /\ ~mListeners[0].enabled
    /\ mListeners[1].eventCode = eventCode /\ mListeners[1].enabled
    /\ mListeners[0].callback = 1 /\ mListeners[1].callback = 2
    /\ handlerCount = 1
    /\ invoked = <<[callback |-> 2, code |-> eventCode, param |-> param]>>

\* sendEvent stands at its return statement.
SendReturns == pc[kMain] = "se_return"

\* What the default listener's invocation for the dispatched event looks like.
DefaultInvocation == [callback |-> mDefaultCallback, code |-> eventCode, param |-> param]

\* The number of invocations beyond those of the registered entries.
DefaultCalls == Len(invoked) - Len(MatchingEntries)

\* The entries registered for the dispatched code, enabled or not.
RegisteredForCode == {k \in 0 .. mNumListeners - 1 : mListeners[k].eventCode = eventCode}

PairEntries(code, listener) ==
    {k \in 0 .. mNumListeners - 1 :
        mListeners[k].eventCode = code /\ mListeners[k].callback = listener}

RegisteredOnce(code, listener) == Cardinality(PairEntries(code, listener)) = 1

\* The enabled flag of the first entry of a registered pair.
PairEnabled(code, listener) == mListeners[searchListeners(code, listener)].enabled

\* How often sendEvent called the callback for the dispatched event.
TimesInvoked(listener) == Cardinality({j \in DOMAIN invoked : invoked[j].callback = listener})

\* A listener-table call stands at its return.
Returns(name) == pc[kMain] = "l_return" /\ call.name = name

C13_FlagSet ==
    (Returns("enableListener") /\ call.ret = TRUE
        /\ RegisteredOnce(call.eventCode, call.listener)) =>
            PairEnabled(call.eventCode, call.listener) = call.flag

\* The flag of a pair that stays registered once changes only in an
\* enableListener call for that pair.
C13_FlagKept ==
    \A code \in Codes, listener \in Callbacks :
        (/\ RegisteredOnce(code, listener)
         /\ RegisteredOnce(code, listener)'
         /\ PairEnabled(code, listener)' # PairEnabled(code, listener)) =>
            /\ Returns("enableListener")'
            /\ call'.eventCode = code /\ call'.listener = listener
            /\ call'.flag = PairEnabled(code, listener)'

\* A dispatch skips the entry of a disabled pair and invokes the entry of an
\* enabled pair once; skipped, the callback runs only if it is also the
\* default listener and the default listener is called for the event.
C13_Dispatch ==
    SendReturns =>
        /\ handlerCount = Len(invoked)
        /\ \A listener \in Callbacks : RegisteredOnce(eventCode, listener) =>
              IF PairEnabled(eventCode, listener)
                 THEN TimesInvoked(listener) = 1
                 ELSE TimesInvoked(listener) =
                         IF DefaultCalls = 1 /\ mDefaultCallback = listener THEN 1 ELSE 0

TableUnchanged ==
    /\ mListeners = entry.listeners
    /\ mNumListeners = entry.numListeners
    /\ mDefaultCallback = entry.defaultCallback
    /\ mDefaultCallbackEnabled = entry.defaultEnabled

\* C14: addListener with a null callback, or on a table that holds
\* kMaxListeners entries, returns false and leaves entries, count and default
\* listener unchanged; numListeners never exceeds kMaxListeners.
C14_AddListenerRejects ==
    /\ mNumListeners \in 0 .. kMaxListeners
    /\ (Returns("addListener")
          /\ (call.listener = 0 \/ entry.numListeners = kMaxListeners)) =>
            (call.ret = FALSE /\ TableUnchanged)

\* addListener returns false for a callback that is not null, because the
\* table was full.
C14_Witness ==
    /\ Returns("addListener")
    /\ call.listener # 0
    /\ entry.numListeners = kMaxListeners
    /\ call.ret = FALSE

\* C15: a successful addListener stores one enabled entry for its arguments
\* in the first free slot and changes nothing else, whether or not the table
\* already holds the pair; and a dispatch invokes the callback of a pair
\* registered n times, all entries enabled, n times, the handled count being
\* the number of invocations.
C15_AddListenerAppends ==
    /\ (Returns("addListener") /\ call.ret = TRUE) =>
          /\ mNumListeners = entry.numListeners + 1
          /\ mListeners = [entry.listeners EXCEPT ![entry.numListeners] =
                              [callback |-> call.listener, eventCode |-> call.eventCode,
                               enabled |-> TRUE]]
          /\ mDefaultCallback = entry.defaultCallback
          /\ mDefaultCallbackEnabled = entry.defaultEnabled
    /\ SendReturns =>
          /\ handlerCount = Len(invoked)
          /\ \A listener \in Callbacks :
                (/\ PairEntries(eventCode, listener) # {}
                 /\ \A k \in PairEntries(eventCode, listener) : mListeners[k].enabled) =>
                    TimesInvoked(listener) = Cardinality(PairEntries(eventCode, listener))

\* sendEvent returns 2 after it invoked callback 1 twice, for the two
\* entries of the same pair.
C15_Witness ==
    /\ SendReturns
    /\ Cardinality(PairEntries(eventCode, 1)) = 2
    /\ TimesInvoked(1) = 2
    /\ handlerCount = 2

\* The registered entries in table order, now and at the entry of the call.
LiveTable == [j \in 1 .. mNumListeners |-> mListeners[j - 1]]
TableAtEntry == [j \in 1 .. entry.numListeners |-> entry.listeners[j - 1]]

\* The positions in TableAtEntry of the entries for the call's pair.
PairAtEntry ==
    {j \in DOMAIN TableAtEntry :
        /\ TableAtEntry[j].eventCode = call.eventCode
        /\ TableAtEntry[j].callback = call.listener}

FirstOf(S) == CHOOSE j \in S : \A m \in S : j <= m

RemoveAt(seq, k) == [j \in 1 .. Len(seq) - 1 |-> IF j < k THEN seq[j] ELSE seq[j + 1]]

DefaultUnchanged ==
    /\ mDefaultCallback = entry.defaultCallback
    /\ mDefaultCallbackEnabled = entry.defaultEnabled

C17_RemovesAllOccurrences ==
    (Returns("removeListener") /\ call.ret = TRUE) =>
        PairEntries(call.eventCode, call.listener) = {}

C19_RemoveEveryEntryOfCallback ==
    Returns("removeListenerAll") =>
        /\ LiveTable = SelectSeq(TableAtEntry, LAMBDA r : r.callback # call.listener)
        /\ call.ret = entry.numListeners - mNumListeners
        /\ DefaultUnchanged
        /\ (\A j \in DOMAIN TableAtEntry : TableAtEntry[j].callback # call.listener) =>
              (call.ret = 0 /\ TableUnchanged)

\* removeListener(listener) returns 2 after it removed two entries of the
\* callback registered for different codes.
C19_Witness ==
    /\ Returns("removeListenerAll")
    /\ call.ret = 2
    /\ TableAtEntry[1].callback = call.listener
    /\ TableAtEntry[2].callback = call.listener
    /\ TableAtEntry[1].eventCode # TableAtEntry[2].eventCode
    /\ mNumListeners = 0

\* C20: enableListener(code, cb, flag) on a table that holds the pair
\* returns true and has set the flag of the pair's first entry and nothing
\* else; on a table without the pair it returns false and changes nothing.
\* isListenerEnabled(code, cb) returns the flag of the pair's first entry,
\* false without one, and changes nothing.
C20_EnableFirstMatch ==
    /\ Returns("enableListener") =>
          IF PairAtEntry # {}
             THEN /\ call.ret = TRUE
                  /\ mListeners = [entry.listeners EXCEPT
                                      ![FirstOf(PairAtEntry) - 1].enabled = call.flag]
                  /\ mNumListeners = entry.numListeners
                  /\ DefaultUnchanged
             ELSE call.ret = FALSE /\ TableUnchanged
    /\ Returns("isListenerEnabled") =>
          /\ call.ret = IF PairAtEntry # {}
                            THEN TableAtEntry[FirstOf(PairAtEntry)].enabled
                            ELSE FALSE
          /\ TableUnchanged

\* enableListener returns true after it disabled the first of two entries
\* of a pair; the second is still enabled.
C20_Witness ==
    /\ Returns("enableListener")
    /\ call.ret = TRUE
    /\ call.flag = FALSE
    /\ PairAtEntry = {1, 2}
    /\ TableAtEntry[1].enabled /\ TableAtEntry[2].enabled
    /\ ~LiveTable[1].enabled /\ LiveTable[2].enabled

\* popEvent returned false.
PopFailed == pc[kMain] = "pop_return" /\ ~popRet

\* The step popEvent takes on an empty queue: straight to return false,
\* with the queue, the I flag and the caller's variables as they were.
C21_EmptyStep ==
    (pc[kMain] = "pop_isEmpty" /\ isEmpty(pq) /\ pc'[kMain] # "pop_isEmpty") =>
        /\ pc'[kMain] = "pop_return"
        /\ popRet' = FALSE
        /\ UNCHANGED <<queueVars, SREG_I, eventCode, param>>

\* C21: popEvent on an empty queue returns false in one step that writes
\* neither head, tail, count nor a slot, nor the caller's eventCode and
\* param, and does not touch the I flag; when it has returned false the
\* queue is empty, interrupts are enabled, and in a call that popped no
\* event before the caller's variables are still unassigned.
C21_PopEmpty ==
    /\ [][C21_EmptyStep]_vars
    /\ [](PopFailed =>
            /\ isEmpty(pq)
            /\ SREG_I
            /\ callLog = <<>> => (eventCode = Uninit /\ param = Uninit)
            /\ callLog # <<>> =>
                  (/\ eventCode = callLog[Len(callLog)].code
                   /\ param = callLog[Len(callLog)].param))

\* popEvent returns false on the empty low-priority queue after the same
\* processEvent call popped a high-priority event: the caller's variables
\* still hold that event.
C21_Witness ==
    /\ PopFailed
    /\ op = "processEvent"
    /\ pq = kLowPriority
    /\ Len(callLog) = 1
    /\ eventCode = callLog[1].code
    /\ mNumEvents[kHighPriority] > 0

\* The step invokes a callback.
CallbackInvoked == Len(invoked') > Len(invoked)

\* C22: a callback is invoked only by a step of sendEvent inside
\* processEvent or processAllEvents, in normal code, with the I flag set
\* (popEvent's atomic section has been left); no step of queueEvent or
\* popEvent and no step of the listener-table calls invokes one, and all of
\* sendEvent runs inside a processing call with the I flag set.
C22_ListenersInProcessingOnly ==
    /\ [][CallbackInvoked =>
            /\ op \in {"processEvent", "processAllEvents"}
            /\ pc[kMain] \in {"se_loop", "se_default"}
            /\ pc[kISR] = "idle"
            /\ SREG_I /\ SREG_I']_vars
    /\ [](pc[kMain] \in {"se_loop", "se_default", "se_return"} =>
            /\ op \in {"processEvent", "processAllEvents"}
            /\ SREG_I)

\* In processAllEvents, after a queueEvent call by normal code, sendEvent
\* has invoked a callback for a popped event, with the I flag set.
C22_Witness ==
    /\ op = "processAllEvents"
    /\ pc[kMain] = "se_return"
    /\ invoked # <<>>
    /\ Len(callLog) = 2
    /\ SREG_I

\* C23: a processEvent call whose high-priority event was handled by a
\* callback returns without touching the low-priority queue, so a
\* low-priority event stays queued for as long as every call finds a handled
\* high-priority event: with high-priority submissions that never stop it is
\* never dispatched.
C23_HandledHighBlocksLow ==
    (/\ op = "processEvent"
     /\ pc[kMain] = "return"
     /\ callLog # <<>>
     /\ callLog[1].pri = kHighPriority
     /\ callLog[1].handled >= 1) =>
        /\ Len(callLog) = 1
        /\ handledCount = callLog[1].handled
        /\ Live(kLowPriority) = LiveAtEntry(kLowPriority)
        /\ mEventQueueHead[kLowPriority] = entry.head[kLowPriority]

\* The low-priority event submitted first is still queued, no low-priority
\* event was ever popped, and processEvent returns from dispatching the
\* last of the high-priority events submitted after it, all of them popped.
C23_Witness ==
    /\ op = "processEvent"
    /\ pc[kMain] = "return"
    /\ Len(callLog) = 1
    /\ callLog[1].pri = kHighPriority
    /\ callLog[1].handled >= 1
    /\ popped[kLowPriority] = <<>>
    /\ Live(kLowPriority) # <<>>
    /\ Live(kLowPriority)[1][2] = 0
    /\ Len(popped[kHighPriority]) = MaxSubmits - 1

\* A queue call stands between the statements that update the ring: the
\* tail is moved and the count not yet, or the head slot is cleared and the
\* pop not yet completed.
InQueueUpdate ==
    \/ \E c \in Contexts : pc[c] = "qe_count"
    \/ pc[kMain] \in {"pop_head", "pop_count", "pop_sei"}

\* The events submitted to a queue and not yet popped, oldest first.
Pending(q) == SubSeq(accepted[q], Len(popped[q]) + 1, Len(accepted[q]))

\* C24: every state has 0 <= count <= capacity and head and tail in
\* [0, capacity); between the updates of a queue call
\* tail = (head + count) mod capacity, the count slots from head hold the
\* submitted and not yet popped events in submission order, and head = tail
\* exactly when the queue is empty (count 0) or full (count = capacity).
C24_QueueInvariant ==
    \A q \in Priorities :
        /\ mNumEvents[q] >= 0 /\ mNumEvents[q] <= kEventQueueSize
        /\ mEventQueueHead[q] >= 0 /\ mEventQueueHead[q] < kEventQueueSize
        /\ mEventQueueTail[q] >= 0 /\ mEventQueueTail[q] < kEventQueueSize
        /\ ~InQueueUpdate =>
              /\ mEventQueueTail[q] = (mEventQueueHead[q] + mNumEvents[q]) % kEventQueueSize
              /\ Len(Pending(q)) = mNumEvents[q]
              /\ Live(q) = Pending(q)
              /\ (mEventQueueHead[q] = mEventQueueTail[q]) <=> (isEmpty(q) \/ isFull(q))

\* A queue is full after its head and tail wrapped around: head = tail = 1.
C24_Witness ==
    /\ ~InQueueUpdate
    /\ \E q \in Priorities :
          /\ isFull(q)
          /\ mEventQueueHead[q] = 1
          /\ mEventQueueTail[q] = 1

\* C25: in every state 0 <= numListeners <= capacity and the entries at
\* the indices below numListeners all hold a callback that is not null (the
\* live entries are contiguous from index 0); isListenerListEmpty is true
\* exactly when numListeners is 0, isListenerListFull exactly when it is the
\* capacity.
C25_TableInvariant ==
    /\ mNumListeners >= 0 /\ mNumListeners <= kMaxListeners
    /\ \A k \in 0 .. mNumListeners - 1 : mListeners[k].callback # 0
    /\ isListenerListEmpty <=> (mNumListeners = 0)
    /\ isListenerListFull <=> (mNumListeners = kMaxListeners)

\* A removal from a full table returns: the entry that was second is now
\* the only one, at index 0, and the table is neither empty nor full.
C25_Witness ==
    /\ Returns("removeListener")
    /\ call.ret = TRUE
    /\ entry.numListeners = kMaxListeners
    /\ mNumListeners = kMaxListeners - 1
    /\ mListeners[0] = entry.listeners[1]
    /\ mListeners[0] # entry.listeners[0]
    /\ ~isListenerListEmpty /\ ~isListenerListFull

\* The registered entries and their count are as the returning call found
\* them.
EntriesUnchanged ==
    /\ mListeners = entry.listeners
    /\ mNumListeners = entry.numListeners

\* C26: setDefaultListener(null) returns false and leaves the default
\* listener and its flag as they were; setDefaultListener(cb), cb not null,
\* returns true with cb installed and the flag true, whatever was installed
\* and whatever the flag was; removeDefaultListener leaves no callback and
\* the flag false; enableDefaultListener sets the flag to its argument and
\* keeps the callback; none of them changes the registered entries.
C26_DefaultListenerCalls ==
    /\ Returns("setDefaultListener") =>
          /\ EntriesUnchanged
          /\ IF call.listener = 0
                 THEN call.ret = FALSE /\ DefaultUnchanged
                 ELSE /\ call.ret = TRUE
                      /\ mDefaultCallback = call.listener
                      /\ mDefaultCallbackEnabled = TRUE
    /\ Returns("removeDefaultListener") =>
          /\ EntriesUnchanged
          /\ mDefaultCallback = 0
          /\ mDefaultCallbackEnabled = FALSE
    /\ Returns("enableDefaultListener") =>
          /\ EntriesUnchanged
          /\ mDefaultCallback = entry.defaultCallback
          /\ mDefaultCallbackEnabled = call.flag

\* setDefaultListener(2) returns true: it replaced callback 1, which had
\* been disabled, and the default listener is enabled again.
C26_Witness ==
    /\ Returns("setDefaultListener")
    /\ call.listener = 2
    /\ entry.defaultCallback = 1
    /\ entry.defaultEnabled = FALSE
    /\ mDefaultCallback = 2
    /\ mDefaultCallbackEnabled = TRUE
    /\ mNumListeners > 0

\* The first popEvent of a processing call, or the second after a first
\* that found its queue empty, has returned: the I flag at the entry of the
\* processing call is the one this popEvent found.
PopReturnsAsEntered ==
    /\ pc[kMain] = "pop_return"
    /\ IF popRet THEN Len(callLog) = 1 ELSE callLog = <<>>

\* C27 as stated: when queueEvent or popEvent returns, the I flag is what
\* it was when the call began, also for a call made with interrupts masked.
C27_InterruptStateRestored ==
    /\ pc[kMain] = "qe_return" => SREG_I = entry.sreg
    /\ PopReturnsAsEntered => SREG_I = entry.sreg

\* An event that was accepted and not popped is in no slot of its queue.
Overwritten(q) ==
    \E k \in (Len(popped[q]) + 1) .. Len(accepted[q]) :
        \A slot \in Slots :
            <<mEventQueue[q][slot].code, mEventQueue[q][slot].param>> # accepted[q][k]

\* C28: with two producers, in kInterruptSafe mode no queue ever counts
\* more events than its capacity and no accepted event is overwritten; in
\* kNotInterruptSafe mode queueEvent never masks interrupts, so the
\* interrupt handler can run between the isFull test and the write of a
\* queueEvent of normal code, and only in that mode a count above the
\* capacity or an overwritten event occurs.
C28_FullCheckInsideSection ==
    /\ mInterruptSafeMode =>
          \A q \in Priorities : mNumEvents[q] <= kEventQueueSize /\ ~Overwritten(q)
    /\ ~mInterruptSafeMode => (pc[kISR] = "idle" => SREG_I)

\* In kNotInterruptSafe mode a queueEvent of normal code returns true for
\* a queue that was not full when it began: the interrupt handler filled the
\* queue after the isFull test, the write went over an event not yet
\* consumed and the count is above the capacity.
C28_Witness ==
    /\ ~mInterruptSafeMode
    /\ pc[kMain] = "qe_return"
    /\ qe[kMain].retVal = TRUE
    /\ entry.num[qe[kMain].pri] < kEventQueueSize
    /\ mNumEvents[qe[kMain].pri] > kEventQueueSize
    /\ Overwritten(qe[kMain].pri)

\* popEvent is past its emptiness check and has not yet decremented the count.
InPopSection ==
    pc[kMain] \in {"pop_cli", "pop_readCode", "pop_readParam", "pop_clear",
                   "pop_head", "pop_count"}

\* C29: with an interrupt handler that only submits, popEvent's emptiness
\* check outside the masked section is harmless: from the check to the
\* decrement the count of the polled queue is at least 1, so no count goes
\* below 0; a popEvent that returned false left the queue as the interrupt
\* handler filled it, and every successful popEvent returns the oldest event
\* submitted and not yet popped, a missed one included.
C29_UnguardedCheckHarmless ==
    /\ InPopSection => mNumEvents[pq] >= 1
    /\ \A q \in Priorities : mNumEvents[q] >= 0
    /\ (PopFailed /\ ~InQueueUpdate) =>
          /\ Len(Pending(pq)) = mNumEvents[pq]
          /\ Live(pq) = Pending(pq)
    /\ pc[kMain] = "pop_sei" =>
          /\ Pending(pq) # <<>>
          /\ <<eventCode, param>> = Head(Pending(pq))

\* popEvent found its queue empty and returns false, and the interrupt
\* handler has since put an event in that queue: the event is missed by this
\* call and is still queued.
C29_Witness ==
    /\ PopFailed
    /\ pc[kISR] = "idle"
    /\ mNumEvents[pq] >= 1
    /\ Live(pq) = Pending(pq)

\* C30: during one call of processAllEvents no low-priority event is
\* dispatched while the high-priority queue holds an event, also when an
\* interrupt handler submits a high-priority event while the low-priority
\* queue is drained: an event popped while the high-priority queue held an
\* event is followed, in that call, by a high-priority event.
C30_AllEventsHighFirst ==
    op = "processAllEvents" =>
        \A k \in DOMAIN callLog :
            (k > 1 /\ callLog[k - 1].highLeft > 0) => callLog[k].pri = kHighPriority

\* The events of a sequence, as a set.
Range(seq) == {seq[k] : k \in DOMAIN seq}

\* C31: when processEvent pops an event whose code has no enabled listener
\* while no enabled default listener is installed, no callback is counted for
\* it, the event is logged once as popped from its queue and is in neither
\* queue afterwards, and a call that ends with such an event returns 0; no
\* event popped at any time is in a queue again.
C31_UnhandledConsumed ==
    /\ op = "processEvent" =>
          \A k \in DOMAIN callLog :
              HandledFor(callLog[k].code) = 0 =>
                  LET ev == <<callLog[k].code, callLog[k].param>> IN
                  /\ callLog[k].handled \in {Uninit, 0}
                  /\ Cardinality({j \in DOMAIN popped[callLog[k].pri] :
                                     popped[callLog[k].pri][j] = ev}) = 1
                  /\ \A q \in Priorities : ev \notin Range(Live(q))
                  /\ (pc[kMain] = "return" /\ k = Len(callLog)) => handledCount = 0
    /\ \A q, r \in Priorities : Range(popped[q]) \cap Range(Live(r)) = {}

\* A processEvent call returns 0 after it popped one event from each
\* queue and dispatched both to nobody, although a default listener is
\* installed (and disabled) and a listener is registered (and disabled).
C31_Witness ==
    /\ op = "processEvent"
    /\ pc[kMain] = "return"
    /\ Len(callLog) = 2
    /\ callLog[1].handled = 0
    /\ callLog[2].handled = 0
    /\ handledCount = 0
    /\ entry.defaultCallback # 0
    /\ entry.numListeners > 0
    /\ \A q \in Priorities : isEmpty(q)

\* C32: a queueEvent( code, param, pri ) of normal code on a queue that is
\* not full returns true; the slot at the tail of the queue selected by pri
\* holds (code, param), that tail has advanced by one modulo the capacity and
\* that count has grown by one; the head and the other slots of that queue,
\* the queue of the other priority and the listener table are as they were.
C32_QueueEventFrame ==
    (pc[kMain] = "qe_return" /\ entry.num[qe[kMain].pri] < kEventQueueSize) =>
        LET p == qe[kMain].pri
            other == IF p = kHighPriority THEN kLowPriority ELSE kHighPriority
        IN  /\ qe[kMain].retVal = TRUE
            /\ mEventQueue[p][entry.tail[p]].code = qe[kMain].eventCode
            /\ mEventQueue[p][entry.tail[p]].param = qe[kMain].eventParam
            /\ \A slot \in Slots \ {entry.tail[p]} : mEventQueue[p][slot] = entry.queue[p][slot]
            /\ mEventQueueTail[p] = (entry.tail[p] + 1) % kEventQueueSize
            /\ mNumEvents[p] = entry.num[p] + 1
            /\ mEventQueueHead[p] = entry.head[p]
            /\ mEventQueue[other] = entry.queue[other]
            /\ mEventQueueHead[other] = entry.head[other]
            /\ mEventQueueTail[other] = entry.tail[other]
            /\ mNumEvents[other] = entry.num[other]
            /\ mListeners = entry.listeners
            /\ mNumListeners = entry.numListeners
            /\ mDefaultCallback = entry.defaultCallback
            /\ mDefaultCallbackEnabled = entry.defaultEnabled

\* An accepted call returns: it wrote the last slot of the array, so the
\* tail wrapped to 0, while the queue held an older event and the other
\* queue and the listener table were not empty.
C32_Witness ==
    /\ pc[kMain] = "qe_return"
    /\ qe[kMain].retVal = TRUE
    /\ entry.tail[qe[kMain].pri] = kEventQueueSize - 1
    /\ mEventQueueTail[qe[kMain].pri] = 0
    /\ entry.num[qe[kMain].pri] > 0
    /\ \E q \in Priorities : q # qe[kMain].pri /\ mNumEvents[q] > 0
    /\ mNumListeners > 0

\* seq is an initial part of full.
IsPrefix(seq, full) == Len(seq) <= Len(full) /\ seq = SubSeq(full, 1, Len(seq))

\* C33: in every state the events handed to sendEvent from a queue are,
\* in order and each once, the first of the events that queueEvent accepted
\* for that queue; between the updates of a queue call the accepted events
\* not yet handed over are exactly the events the queue holds; the event
\* sendEvent works on is the one popped last, and it never has the code
\* kEventNone of a cleared or never-written slot.
C33_NoEventLostOrInvented ==
    /\ \A q \in Priorities :
          /\ IsPrefix(popped[q], accepted[q])
          /\ \A j \in DOMAIN popped[q] : popped[q][j][1] # kEventNone
          /\ ~InQueueUpdate => Live(q) = SubSeq(accepted[q], Len(popped[q]) + 1, Len(accepted[q]))
    /\ pc[kMain] \in {"se_loop", "se_default", "se_return"} =>
          /\ popped[pq] # <<>>
          /\ <<eventCode, param>> = popped[pq][Len(popped[pq])]
          /\ eventCode # kEventNone

\* sendEvent works on the second event popped from a queue while the third
\* event accepted for that queue waits in slot 0, which an earlier pop had
\* cleared.
C33_Witness ==
    /\ pc[kMain] = "se_loop"
    /\ Len(popped[pq]) = 2
    /\ Len(accepted[pq]) = 3
    /\ mNumEvents[pq] = 1
    /\ mEventQueueHead[pq] = 0
    /\ mEventQueue[pq][0].code # kEventNone

\* The number of events the two queues hold.
TotalQueued == mNumEvents[kHighPriority] + mNumEvents[kLowPriority]

\* Every accepted event was popped and both queues are empty.
AllDispatched ==
    \A q \in Priorities : isEmpty(q) /\ popped[q] = accepted[q]

\* C34: with loop() calling processEvent again and again and a bounded
\* number of submissions, every accepted event is eventually popped and
\* dispatched, and from some moment on both queues are empty for ever; a
\* processEvent call that finds an event in either queue pops at least one,
\* so that a call lowers the number of queued events by the number of its
\* pops and n queued events are gone after at most n calls.
C34_EveryEventProcessed ==
    /\ \A q \in Priorities : \A k \in 1 .. MaxSubmits :
          (Len(accepted[q]) >= k) ~> (Len(popped[q]) >= k)
    /\ <>[]AllDispatched
    /\ []((op = "processEvent" /\ pc[kMain] = "return") =>
            /\ TotalQueued = entry.num[kHighPriority] + entry.num[kLowPriority] - Len(callLog)
            /\ entry.num[kHighPriority] + entry.num[kLowPriority] > 0 => Len(callLog) >= 1)

\* Every submission the sketch makes was accepted, the last event has been
\* popped from the low-priority queue by a call that found the high-priority
\* queue empty, and both queues are empty.
C34_Witness ==
    /\ op = "processEvent"
    /\ pc[kMain] = "return"
    /\ Len(accepted[kHighPriority]) + Len(accepted[kLowPriority]) = MaxSubmits
    /\ accepted[kHighPriority] # <<>>
    /\ AllDispatched
    /\ Len(callLog) = 1
    /\ callLog[1].pri = kLowPriority

\* The record of the table calls that callbacks made in the dispatch that
\* sendEvent is in.
InDispatchCalls == DispatchCalls(param)

\* C35: with callbacks that call addListener or removeListener during the
\* dispatch, every step of sendEvent's loop that reads an entry reads it at an
\* index below the number of listeners of that moment, the callback it
\* invokes is the callback of that entry and is not null; the count stays
\* within the capacity and no callback ever invoked is null.
C35_DispatchInsideLiveTable ==
    /\ [][(pc[kMain] = "se_loop" /\ i' = i + 1) =>
            /\ 0 <= i /\ i < mNumListeners
            /\ invoked' # invoked =>
                  /\ mListeners[i].callback # 0
                  /\ invoked'[Len(invoked')].callback = mListeners[i].callback]_vars
    /\ [](/\ 0 <= mNumListeners /\ mNumListeners <= kMaxListeners
          /\ \A k \in 0 .. mNumListeners - 1 : mListeners[k].callback # 0
          /\ \A j \in DOMAIN invoked : invoked[j].callback # 0)

\* The loop is about to test its index after the callback of the last
\* entry removed a listener: the index is above the number of listeners.
C35_Witness ==
    /\ pc[kMain] = "se_loop"
    /\ InDispatchCalls.removed > 0
    /\ i > mNumListeners
    /\ invoked # <<>>

\* C36: when sendEvent returns from a dispatch during which callbacks
\* removed listeners and added none, every enabled entry for the event code
\* that is still in the table was invoked by the dispatch: no callback has
\* more such entries than invocations.
C36_NoListenerSkipped ==
    (SendReturns /\ InDispatchCalls.added = 0) =>
        \A cb \in Callbacks :
            Cardinality({k \in 0 .. mNumListeners - 1 :
                            /\ mListeners[k].callback = cb
                            /\ mListeners[k].eventCode = eventCode
                            /\ mListeners[k].enabled}) <= TimesInvoked(cb)

\* C37: the default callback is null from construction, whatever the
\* value of its uninitialised flag, and becomes non-null only by a
\* setDefaultListener call that returns true for a non-null callback;
\* enableDefaultListener never changes it and removeDefaultListener makes it
\* null; while it is null, sendEvent invokes nothing and returns 0 for an
\* event with no enabled listener, and no callback ever invoked is null.
C37_NoDefaultWhileNoneInstalled ==
    /\ [][/\ (mDefaultCallback' # mDefaultCallback /\ mDefaultCallback' # 0) =>
                /\ call'.name = "setDefaultListener"
                /\ call'.ret = TRUE
                /\ call'.listener = mDefaultCallback'
          /\ (pc'[kMain] = "l_return" /\ call'.name = "enableDefaultListener") =>
                mDefaultCallback' = mDefaultCallback
          /\ (pc'[kMain] = "l_return" /\ call'.name = "removeDefaultListener") =>
                mDefaultCallback' = 0]_vars
    /\ [](/\ (SendReturns /\ mDefaultCallback = 0 /\ MatchingEntries = <<>>) =>
                (handlerCount = 0 /\ invoked = <<>>)
          /\ \A j \in DOMAIN invoked : invoked[j].callback # 0)

\* sendEvent returns 0 for an event whose only listener is disabled, with
\* no default callback installed and the default's flag set.
C37_Witness ==
    /\ SendReturns
    /\ mDefaultCallback = 0
    /\ mDefaultCallbackEnabled = TRUE
    /\ mNumListeners > 0
    /\ MatchingEntries = <<>>
    /\ handlerCount = 0

\* The slots of queue q that hold its events: mNumEvents slots from the head on.
LiveSlots(q) == {(mEventQueueHead[q] + k) % kEventQueueSize : k \in 0 .. mNumEvents[q] - 1}

\* A queueEvent has written its slot and has not yet counted the event.
InQueueWrite == \E c \in Contexts : pc[c] \in {"qe_storeParam", "qe_tail", "qe_count"}

\* C38: the first successful popEvent of a call returns the (code, param)
\* that was stored at the head, has set the code of that slot to kEventNone,
\* has advanced the head by one modulo the capacity and lowered the count by
\* one, and has left the tail, the other slots and the other queue as they
\* were; and in every state outside queueEvent's write of a slot, every slot
\* that is not among the count slots from the head holds the code kEventNone.
C38_PopClearsSlot ==
    /\ (pc[kMain] = "pop_return" /\ popRet /\ Len(callLog) = 1) =>
          LET other == IF pq = kHighPriority THEN kLowPriority ELSE kHighPriority IN
          /\ eventCode = entry.queue[pq][entry.head[pq]].code
          /\ param = entry.queue[pq][entry.head[pq]].param
          /\ mEventQueue[pq] = [entry.queue[pq] EXCEPT ![entry.head[pq]].code = kEventNone]
          /\ mEventQueueHead[pq] = (entry.head[pq] + 1) % kEventQueueSize
          /\ mNumEvents[pq] = entry.num[pq] - 1
          /\ mEventQueueTail[pq] = entry.tail[pq]
          /\ mEventQueue[other] = entry.queue[other]
          /\ mEventQueueHead[other] = entry.head[other]
          /\ mEventQueueTail[other] = entry.tail[other]
          /\ mNumEvents[other] = entry.num[other]
    /\ ~InQueueWrite =>
          \A q \in Priorities : \A slot \in Slots \ LiveSlots(q) :
              mEventQueue[q][slot].code = kEventNone

\* A popEvent returns true after it took the event at the last slot of a
\* full queue: the head wrapped to 0, the slot it left has the code
\* kEventNone and a parameter that is not the initial 0.
C38_Witness ==
    /\ pc[kMain] = "pop_return"
    /\ popRet
    /\ Len(callLog) = 1
    /\ entry.num[pq] = kEventQueueSize
    /\ entry.head[pq] = kEventQueueSize - 1
    /\ mEventQueueHead[pq] = 0
    /\ mEventQueue[pq][kEventQueueSize - 1].code = kEventNone
    /\ mEventQueue[pq][kEventQueueSize - 1].param # 0
====
